---- MODULE Spec2Model ----
(***************************************************************************)
(* Verification model of the STOFS-2D / SECOFS post-processing scripts.    *)
(*                                                                         *)
(* Units.  Longitudes and latitudes are integers in tenths of a degree     *)
(* (so the extractor's buffer of 0.1 degree is 1).  Water levels are       *)
(* integers in tenths of a metre (so the fill value -99999.0 is -999990    *)
(* and the dry-node limit of 100 m is 1000).                               *)
(*                                                                         *)
(* Python arrays are sequences; the node and station indices stored in     *)
(* them are the 0-based indices of the code, so element i of a Python      *)
(* array a is a[i + 1] here.                                               *)
(***************************************************************************)
EXTENDS Integers, Sequences, FiniteSets, TLC

VARIABLES
    pc,          \* position of the script: "start" or "done"
    caller,      \* the function that ran ("" before it has run)
    x, y,        \* node coordinates of the full mesh
    elements,    \* 0-based triangle connectivity of the full mesh
    box,         \* the bounding box [lon_min, lon_max, lat_min, lat_max]
    mesh,        \* what extract_regional_mesh returned to the caller
    log,         \* the observable steps the caller took, in order
    ret,         \* the caller's return value, None before it returns
    data1,       \* the field values read from the first file (no anomaly)
    data2,       \* the field values read from the second file (bias-corrected)
    has_fill1,   \* the first file's variable carries a _FillValue attribute
    has_fill2,   \* the second file's variable carries a _FillValue attribute
    diff,        \* the computed difference, a masked array
    stats,       \* the statistics of the valid entries, None when there are none
    names1,      \* the station names of the first file, in file order
    names2,      \* the station names of the second file, in file order
    obs,         \* the stations of the first file that have observations
    query,       \* the arguments the comparison was called with
    pairs,       \* the records paired: station idx1 of file 1 with idx2 of file 2
    tree,        \* the reader's spatial index, None until it is built
    tree_builds, \* how many times a spatial index was built
    scans,       \* how many times every node's distance was computed
    lookups,     \* how many nearest-node lookups ran
    nearest,     \* what the last nearest-node lookup returned, None before it
    nc_open,     \* the source NetCDF files the main process holds open
    frame_args,  \* the tasks handed to the pool, in submission order
    n_workers,   \* the size of the pool
    taken,       \* the positions of the tasks a worker has started
    task_results,\* the result of each task, None until its worker is through
    worker_opens,\* the positions of the tasks whose worker opened a source file
    files,       \* the image files of the output directory, with their content
    collected,   \* how many results the main process has taken from the pool
    frame_files, \* the frame paths the main process has gathered, in order
    encoded,     \* the frame paths handed to the animation encoder, None before
    inputs,      \* what a script run found: its files, its selection, its units
    exit_status, \* the exit status of the script's process, None while it runs
    time_labels, \* the time label of each step, None when none was made
    attempts,    \* the subprocess invocations made, in order
    data_reg,    \* the field values at the nodes of the regional mesh
    tri_mask,    \* the triangle mask handed to the renderer, None before
    urlretrieves,\* the download attempts made, in order, each with its outcome
    sleeps,      \* how many times a download waited before a retry
    reads        \* the time indices used to index the data of the input files

meshVars == <<x, y, elements, box, mesh, log, ret>>

diffVars == <<data1, data2, has_fill1, has_fill2, diff, stats>>

stationVars == <<names1, names2, obs, query, pairs>>

nearestVars == <<tree, tree_builds, scans, lookups, nearest>>

\* the variables of the models that follow the station model
frameVars == <<nc_open, frame_args, n_workers, taken, task_results,
               worker_opens,
               files, collected, frame_files, encoded>>

scriptVars == <<inputs, exit_status, time_labels, attempts>>

maskVars == <<data_reg, tri_mask>>

agentVars == <<urlretrieves, sleeps>>

\* the variables of the models that follow the script runs
tailVars == <<maskVars, agentVars, reads>>

laterVars == <<nearestVars, frameVars, scriptVars, tailVars>>

vars == <<pc, caller, meshVars, diffVars, stationVars, laterVars>>

\* ------------------------------------------------------------------------
\* Python values
\* ------------------------------------------------------------------------

\* None and a present value: an optional value is a sequence of length <= 1.
None == << >>

Some(v) == <<v>>

\* range(n) as a sequence
Range(n) == [i \in 1..n |-> i - 1]

\* the set of elements of a sequence
Elems(s) == {s[i] : i \in 1..Len(s)}

\* ------------------------------------------------------------------------
\* Bounds of the model
\* ------------------------------------------------------------------------

MaxNodes == 4

MaxTris == 2

\* the positions a node of a generated mesh can have
Points == {<<0, 0>>, <<2, 0>>, <<2, 2>>}

\* the bounding boxes tried on the generated meshes.  The first holds the
\* point <<2, 0>> only, and only by its buffer; the second holds every point,
\* each by the buffer of another side; the third holds no point
Boxes ==
    { [lon_min |-> 3, lon_max |-> 3, lat_min |-> 0, lat_max |-> 0],
      [lon_min |-> 1, lon_max |-> 1, lat_min |-> 1, lat_max |-> 1],
      [lon_min |-> 0, lon_max |-> 0, lat_min |-> 2, lat_max |-> 2] }

\* the triangles of a generated mesh over n nodes: three distinct valid
\* 0-based node indices, written in ascending order
Triangles(n) ==
    {t \in [1..3 -> 0..(n - 1)] : t[1] < t[2] /\ t[2] < t[3]}

\* sequences over S of length at most n
SeqUpTo(S, n) == UNION {[1..k -> S] : k \in 0..n}

\* ------------------------------------------------------------------------
\* Regional mesh extractor
\* ------------------------------------------------------------------------

\* buffer=0.1: the margin by which the bounding box is widened
buffer == 1

\* raised by a dictionary lookup of a key the dictionary does not hold
KeyError == -1

\* the node mask without the buffer margin
node_mask_nobuffer(xs, ys, b) ==
    [i \in 1..Len(xs) |->
        /\ xs[i] >= b.lon_min
        /\ xs[i] <= b.lon_max
        /\ ys[i] >= b.lat_min
        /\ ys[i] <= b.lat_max]

\* the node mask: node i (0-based) lies inside the buffered box
node_mask(xs, ys, b) ==
    [i \in 1..Len(xs) |->
        /\ xs[i] >= b.lon_min - buffer
        /\ xs[i] <= b.lon_max + buffer
        /\ ys[i] >= b.lat_min - buffer
        /\ ys[i] <= b.lat_max + buffer]

\* np.where(mask)[0]: the 0-based indices at which the mask holds, ascending
where(mask) == SelectSeq(Range(Len(mask)), LAMBDA i : mask[i + 1])

\* an index map that leaves every index as it was
index_map_identity(regional_indices) ==
    [old_idx \in Elems(regional_indices) |-> old_idx]

\* an index map that numbers the subset from 1
index_map_onebased(regional_indices) ==
    [old_idx \in Elems(regional_indices) |->
        CHOOSE k \in 1..Len(regional_indices) : regional_indices[k] = old_idx]

\* {old_idx: new_idx for new_idx, old_idx in enumerate(regional_indices)}
index_map(regional_indices) ==
    [old_idx \in Elems(regional_indices) |->
        (CHOOSE k \in 1..Len(regional_indices) : regional_indices[k] = old_idx) - 1]

\* index_map[k]
Lookup(map, k) == IF k \in DOMAIN map THEN map[k] ELSE KeyError

\* a test that looks at the first vertex only
elem_in_region_first(elem, index_set) == elem[1] \in index_set

\* the test that admits a triangle to the regional mesh
elem_in_region(elem, index_set) ==
    elem[1] \in index_set /\ elem[2] \in index_set /\ elem[3] \in index_set

\* the triangle rewritten to subset-local numbering
new_tri(elem, map) ==
    <<Lookup(map, elem[1]), Lookup(map, elem[2]), Lookup(map, elem[3])>>

\* a loop that puts each admitted triangle in front of the ones before it
RECURSIVE valid_triangles_reversed(_, _, _)
valid_triangles_reversed(elems, index_set, map) ==
    IF elems = << >> THEN << >>
    ELSE LET elem == Head(elems)
             rest == valid_triangles_reversed(Tail(elems), index_set, map)
         IN  IF elem[1] \in index_set /\ elem[2] \in index_set /\ elem[3] \in index_set
             THEN rest \o << <<Lookup(map, elem[1]), Lookup(map, elem[2]),
                              Lookup(map, elem[3])>> >>
             ELSE rest

\* the loop over the elements: the admitted triangles, re-indexed, in the
\* order in which the loop meets them
RECURSIVE valid_triangles(_, _, _)
valid_triangles(elems, index_set, map) ==
    IF elems = << >> THEN << >>
    ELSE LET elem == Head(elems)
             rest == valid_triangles(Tail(elems), index_set, map)
         IN  IF elem_in_region(elem, index_set)
             THEN <<new_tri(elem, map)>> \o rest
             ELSE rest

\* a[regional_indices]
Take(a, regional_indices) ==
    [k \in 1..Len(regional_indices) |-> a[regional_indices[k] + 1]]

\* extract_regional_mesh: the four outputs, all None for an empty region;
\* raised is set when a lookup in index_map fails
extract_regional_mesh(xs, ys, elems, b) ==
    LET regional_indices == where(node_mask(xs, ys, b))
        index_set == Elems(regional_indices)
        map == index_map(regional_indices)
        tris == valid_triangles(elems, index_set, map)
    IN  IF \E k \in 1..Len(tris) : KeyError \in Elems(tris[k])
        THEN [raised |-> TRUE, x_reg |-> None, y_reg |-> None,
              elements_reg |-> None, regional_indices |-> None]
        ELSE IF Len(tris) = 0
        THEN [raised |-> FALSE, x_reg |-> None, y_reg |-> None,
              elements_reg |-> None, regional_indices |-> None]
        ELSE [raised |-> FALSE,
              x_reg |-> Some(Take(xs, regional_indices)),
              y_reg |-> Some(Take(ys, regional_indices)),
              elements_reg |-> Some(tris),
              regional_indices |-> Some(regional_indices)]

\* ------------------------------------------------------------------------
\* The callers of the extractor
\* ------------------------------------------------------------------------

\* the state of a caller that has not been handed a mesh yet
NoMesh ==
    [raised |-> FALSE, x_reg |-> None, y_reg |-> None,
     elements_reg |-> None, regional_indices |-> None]

\* the steps common to a caller whose region is empty and one whose is not:
\* what it does after the extractor has returned m
\*   opened   - the steps before the extraction
\*   onEmpty  - the steps of the branch `if x_reg is None`
\*   onMesh   - the steps of the rest of the function
CallerRuns(name, opened, onEmpty, onMesh) ==
    /\ pc = "start"
    /\ LET m == extract_regional_mesh(x, y, elements, box)
       IN  /\ mesh' = m
           /\ IF m.raised
              THEN /\ log' = opened \o <<"extract", "raise">>
                   /\ ret' = None
              ELSE IF m.x_reg = None
              THEN /\ log' = opened \o <<"extract">> \o onEmpty
                   /\ ret' = Some(FALSE)
              ELSE /\ log' = opened \o <<"extract">> \o onMesh
                   /\ ret' = Some(TRUE)
    /\ caller' = name
    /\ pc' = "done"
    /\ UNCHANGED <<x, y, elements, box>>
    /\ UNCHANGED <<diffVars, stationVars, laterVars>>

\* animate_cwl_diff.generate_animation
generate_animation ==
    CallerRuns("generate_animation",
               <<"open">>,
               <<"print_error", "close">>,
               <<"makedirs", "preload", "close", "dispatch_frames",
                 "triangulation", "write_image", "sort", "encode">>)

\* generate_snapshot_sequence.generate_snapshot_sequence
generate_snapshot_sequence ==
    CallerRuns("generate_snapshot_sequence",
               <<"open">>,
               <<"print_error", "close">>,
               <<"makedirs", "preload", "close", "dispatch_frames",
                 "triangulation", "write_image">>)

\* create_enhanced_plot without the test `if x_reg is None`
create_enhanced_plot_unchecked ==
    CallerRuns("create_enhanced_plot",
               <<"open", "close">>,
               <<"triangulation", "set_mask", "write_image">>,
               <<"triangulation", "set_mask", "write_image">>)

\* plot_enhanced_style.create_enhanced_plot
create_enhanced_plot ==
    CallerRuns("create_enhanced_plot",
               <<"open", "close">>,
               <<"print_warning">>,
               <<"triangulation", "set_mask", "write_image">>)

\* plot_cwl_diff_snapshot.generate_snapshot, called with a timestep in range
\* (an out-of-range timestep returns False before the extractor is called)
generate_snapshot ==
    CallerRuns("generate_snapshot",
               <<"open">>,
               <<"print_error", "close">>,
               <<"read_timestep", "close", "triangulation", "set_mask",
                 "write_image">>)

\* ------------------------------------------------------------------------
\* The mesh scripts: one run of one script on one mesh and one box
\* ------------------------------------------------------------------------

\* the synthetic mesh of the concrete scenario: 10 nodes in two rows of
\* five, one degree apart, and the 8 triangles of its four cells
Mesh10X == <<0, 10, 20, 30, 40, 0, 10, 20, 30, 40>>

Mesh10Y == <<0, 0, 0, 0, 0, 10, 10, 10, 10, 10>>

Mesh10Elements ==
    << <<0, 1, 6>>, <<0, 6, 5>>, <<1, 2, 7>>, <<1, 7, 6>>,
       <<2, 3, 8>>, <<2, 8, 7>>, <<3, 4, 9>>, <<3, 9, 8>> >>

\* the box that covers the nodes 1, 2, 6, 7 and nothing else
Mesh10Box == [lon_min |-> 10, lon_max |-> 20, lat_min |-> 0, lat_max |-> 10]

InitGenerated ==
    \E n \in 0..MaxNodes :
        /\ \E pts \in [1..n -> Points] :
              /\ x = [i \in 1..n |-> pts[i][1]]
              /\ y = [i \in 1..n |-> pts[i][2]]
        /\ elements \in SeqUpTo(Triangles(n), MaxTris)
        /\ box \in Boxes

InitScenario ==
    /\ x = Mesh10X
    /\ y = Mesh10Y
    /\ elements = Mesh10Elements
    /\ box = Mesh10Box

\* no field data is loaded
NoDiff ==
    /\ data1 = << >>
    /\ data2 = << >>
    /\ has_fill1 = FALSE
    /\ has_fill2 = FALSE
    /\ diff = << >>
    /\ stats = None

\* no station file is loaded
NoStations ==
    /\ names1 = << >>
    /\ names2 = << >>
    /\ obs = {}
    /\ query = << >>
    /\ pairs = << >>

\* no reader is open and no lookup ran
NoNearest ==
    /\ tree = << >>
    /\ tree_builds = 0
    /\ scans = 0
    /\ lookups = 0
    /\ nearest = << >>

\* no pool was started
NoFrames ==
    /\ nc_open = {}
    /\ frame_args = << >>
    /\ n_workers = 0
    /\ taken = {}
    /\ task_results = << >>
    /\ worker_opens = {}
    /\ files = {}
    /\ collected = 0
    /\ frame_files = << >>
    /\ encoded = << >>

\* no script ran
NoScripts ==
    /\ inputs = << >>
    /\ exit_status = << >>
    /\ time_labels = << >>
    /\ attempts = << >>

\* no mask was made, nothing was downloaded, no time step was read
NoTail ==
    /\ data_reg = << >>
    /\ tri_mask = << >>
    /\ urlretrieves = << >>
    /\ sleeps = 0
    /\ reads = {}

NoLater ==
    /\ NoNearest
    /\ NoFrames
    /\ NoScripts
    /\ NoTail

Init ==
    /\ pc = "start"
    /\ caller = ""
    /\ mesh = NoMesh
    /\ log = << >>
    /\ ret = None
    /\ (InitGenerated \/ InitScenario)
    /\ NoDiff
    /\ NoStations
    /\ NoLater

Next ==
    \/ generate_animation
    \/ generate_snapshot_sequence
    \/ create_enhanced_plot
    \/ generate_snapshot

Spec == Init /\ [][Next]_vars

\* ------------------------------------------------------------------------
\* Properties of the regional mesh extractor
\* ------------------------------------------------------------------------

\* the extractor has returned a mesh (not the empty result, not an error)
Extracted == pc = "done" /\ ~mesh.raised /\ mesh.x_reg # None

\* the extractor has returned the designated empty result
EmptyResult ==
    /\ ~mesh.raised
    /\ mesh.x_reg = None
    /\ mesh.y_reg = None
    /\ mesh.elements_reg = None
    /\ mesh.regional_indices = None

\* node i (0-based) of the full mesh lies inside the buffered bounding box
InsideBufferedBox(i) ==
    /\ box.lon_min - buffer <= x[i + 1] /\ x[i + 1] <= box.lon_max + buffer
    /\ box.lat_min - buffer <= y[i + 1] /\ y[i + 1] <= box.lat_max + buffer

\* the input triangle has its three vertices inside the buffered box
TriangleInside(t) == \A v \in 1..3 : InsideBufferedBox(t[v])

\* the input triangles that lie inside the buffered box, in input order
InsideTriangles == SelectSeq(elements, TriangleInside)

\* the returned triangles, each vertex replaced by the node of the full mesh
\* that the returned regional_indices names for it
OriginalNodes ==
    LET tris == mesh.elements_reg[1]
        ri == mesh.regional_indices[1]
    IN  [k \in 1..Len(tris) |-> [v \in 1..3 |-> ri[tris[k][v] + 1]]]

\* how often t occurs in the sequence s
Occurrences(s, t) == Cardinality({k \in 1..Len(s) : s[k] = t})

\* C1: whenever the extractor returns a non-empty result, every vertex index
\* of every returned triangle is >= 0 and < the length of the returned
\* coordinate arrays.
C1_IndicesValid ==
    Extracted =>
        LET tris == mesh.elements_reg[1]
        IN  /\ Len(mesh.x_reg[1]) = Len(mesh.y_reg[1])
            /\ \A k \in 1..Len(tris) : \A v \in 1..3 :
                   /\ tris[k][v] >= 0
                   /\ tris[k][v] < Len(mesh.x_reg[1])

\* a mesh was returned whose nodes are a proper part of the full mesh and
\* that holds a triangle whose vertices were all renumbered
C1_Witness ==
    /\ Extracted
    /\ Len(mesh.x_reg[1]) < Len(x)
    /\ \E k \in 1..Len(mesh.elements_reg[1]) : \A v \in 1..3 :
           mesh.elements_reg[1][k][v] # OriginalNodes[k][v]

\* C2: when no input triangle has all three vertices inside the buffered
\* box (in particular when the box encloses no node), the extractor returns
\* the empty result, all outputs None, and does not raise.
C2_EmptyRegion ==
    (pc = "done" /\ InsideTriangles = << >>) => EmptyResult

\* the box encloses some node of a mesh that has triangles, none of which
\* lies inside, and the empty result came back
C2_Witness ==
    /\ pc = "done"
    /\ elements # << >>
    /\ \E i \in 0..(Len(x) - 1) : InsideBufferedBox(i)
    /\ InsideTriangles = << >>
    /\ EmptyResult

\* the box encloses no node of a mesh that has triangles, and the empty
\* result came back
C2_WitnessNoNode ==
    /\ pc = "done"
    /\ elements # << >>
    /\ \A i \in 0..(Len(x) - 1) : ~InsideBufferedBox(i)
    /\ EmptyResult

\* C3: the returned triangles are exactly the input triangles whose three
\* vertices all lie inside the buffered box, none dropped and none added,
\* and each rewritten vertex index designates in the subset arrays the
\* coordinates that the original index designated in the full arrays.
C3_ExactlyInsideTriangles ==
    /\ (pc = "done" /\ ~mesh.raised /\ mesh.x_reg = None) =>
           InsideTriangles = << >>
    /\ Extracted =>
           LET tris == mesh.elements_reg[1]
           IN  /\ Len(tris) = Len(InsideTriangles)
               /\ \A k \in 1..Len(tris) :
                      Occurrences(OriginalNodes, OriginalNodes[k])
                          = Occurrences(InsideTriangles, OriginalNodes[k])
               /\ \A k \in 1..Len(tris) : \A v \in 1..3 :
                      /\ mesh.x_reg[1][tris[k][v] + 1] = x[OriginalNodes[k][v] + 1]
                      /\ mesh.y_reg[1][tris[k][v] + 1] = y[OriginalNodes[k][v] + 1]

\* a mesh came back that kept one input triangle, renumbered, and left
\* another one out
C3_Witness ==
    /\ Extracted
    /\ Len(InsideTriangles) < Len(elements)
    /\ \E k \in 1..Len(mesh.elements_reg[1]) :
           mesh.elements_reg[1][k] # OriginalNodes[k]

\* C4: on the 10-node mesh with 8 triangles and the box that covers exactly
\* the 4 nodes 1, 2, 6, 7 and their 2 triangles, the extractor returns
\* exactly those 2 triangles and every vertex index is one of 0, 1, 2, 3.
C4_Scenario ==
    (pc = "done" /\ x = Mesh10X /\ y = Mesh10Y
        /\ elements = Mesh10Elements /\ box = Mesh10Box) =>
        /\ Extracted
        /\ Len(mesh.elements_reg[1]) = 2
        /\ \A k \in 1..2 : \A v \in 1..3 : mesh.elements_reg[1][k][v] \in 0..3
        /\ Elems(OriginalNodes) = {<<1, 2, 7>>, <<1, 7, 6>>}

\* the scenario has run: 10 nodes, 8 triangles, a box with exactly 4 nodes
\* inside that form 2 of the triangles
C4_Witness ==
    /\ pc = "done"
    /\ Len(x) = 10 /\ Len(elements) = 8
    /\ Cardinality({i \in 0..9 : InsideBufferedBox(i)}) = 4
    /\ Len(InsideTriangles) = 2
    /\ Extracted

\* C5: the output keeps the relative order of the input: the returned
\* triangles, read as triangles of the full mesh, are the surviving input
\* triangles in input order.
C5_StableOrder ==
    Extracted => OriginalNodes = InsideTriangles

\* two different triangles survived and a triangle ahead of them did not
C5_Witness ==
    /\ Extracted
    /\ Len(mesh.elements_reg[1]) >= 2
    /\ mesh.elements_reg[1][1] # mesh.elements_reg[1][2]
    /\ ~TriangleInside(elements[1])

\* the steps that use the outputs of the extractor
UsesMesh == {"triangulation", "dispatch_frames", "write_image"}

\* C6: every caller tests for the empty result before it uses an output
\* and then aborts: it returns False and neither builds a triangulation
\* nor dispatches frames nor writes an image.
C6_CallersAbortOnEmpty ==
    (pc = "done" /\ EmptyResult) =>
        /\ ret = Some(FALSE)
        /\ Elems(log) \cap UsesMesh = {}

\* a caller was handed the empty result for a mesh that has triangles
C6_Witness ==
    /\ pc = "done"
    /\ caller = "generate_snapshot_sequence"
    /\ elements # << >>
    /\ EmptyResult
    /\ ret = Some(FALSE)

\* ------------------------------------------------------------------------
\* Difference of two fields and its statistics
\* ------------------------------------------------------------------------

MaxLen == 2

\* the fill value that marks a dry or missing entry, -99999.0
FillValue == -999990

\* the dry-node limit of masked_outside(data, -100, 100)
DryLimit == 1000

\* np.nan; no field value reaches it
NaN == 99999999

\* the values an entry of a generated field can have: the fill value, a
\* value beyond the dry-node limit on either side, and the two values on
\* the limit itself
Values == {FillValue, -1001, -1000, 1000, 1001}

\* an entry of a masked array
Masked(v, m) == [mask |-> m, data |-> v]

\* np.ma.masked_equal(a, value)
masked_equal(a, value) ==
    [i \in 1..Len(a) |-> Masked(a[i].data, a[i].mask \/ a[i].data = value)]

\* masked_outside with the upper limit only
masked_outside_upper(a, v1, v2) ==
    [i \in 1..Len(a) |-> Masked(a[i].data, a[i].mask \/ a[i].data > v2)]

\* np.ma.masked_outside(a, v1, v2)
masked_outside(a, v1, v2) ==
    [i \in 1..Len(a) |->
        Masked(a[i].data, a[i].mask \/ a[i].data < v1 \/ a[i].data > v2)]

\* a - b for floats, NaN if either is
Minus(a, b) == IF a = NaN \/ b = NaN THEN NaN ELSE a - b

\* a - b for masked arrays: an entry is masked if it is in either operand
ma_subtract(a, b) ==
    [i \in 1..Len(a) |-> Masked(Minus(a[i].data, b[i].data), a[i].mask \/ b[i].mask)]

\* a.compressed(): the data of the entries that are not masked
compressed(a) ==
    LET kept == SelectSeq(a, LAMBDA e : ~e.mask)
    IN  [k \in 1..Len(kept) |-> kept[k].data]

\* nc.variables[name][...]: the library masks the entries that equal the
\* variable's _FillValue attribute
nc_read(values, has_fill) ==
    [i \in 1..Len(values) |-> Masked(values[i], has_fill /\ values[i] = FillValue)]

\* compute_difference that subtracts the wrong way round
compute_difference_reversed(d1, d2, hf1, hf2) ==
    LET m1 == masked_outside(nc_read(d1, hf1), -DryLimit, DryLimit)
        m2 == masked_outside(nc_read(d2, hf2), -DryLimit, DryLimit)
    IN  ma_subtract(m1, m2)

\* compute_difference that forgets the dry-node mask of the second field
compute_difference_first_only(d1, d2, hf1, hf2) ==
    LET m1 == masked_outside(nc_read(d1, hf1), -DryLimit, DryLimit)
    IN  ma_subtract(nc_read(d2, hf2), m1)

\* compute_difference: the two fields with fill values and dry nodes masked,
\* and the second minus the first
compute_difference(d1, d2, hf1, hf2) ==
    LET r1 == nc_read(d1, hf1)
        r2 == nc_read(d2, hf2)
        e1 == IF hf1 THEN masked_equal(r1, FillValue) ELSE r1
        e2 == IF hf2 THEN masked_equal(r2, FillValue) ELSE r2
        m1 == masked_outside(e1, -DryLimit, DryLimit)
        m2 == masked_outside(e2, -DryLimit, DryLimit)
    IN  ma_subtract(m2, m1)

\* np.where(zeta.mask, np.nan, zeta.data)
mask_to_nan(a) ==
    [i \in 1..Len(a) |-> IF a[i].mask THEN NaN ELSE a[i].data]

\* a plain array as a masked array with nothing masked
Plain(values) == [i \in 1..Len(values) |-> Masked(values[i], FALSE)]

\* the difference of the frame and snapshot scripts: masked entries become
\* NaN, then the second field minus the first
nan_difference(d1, d2, hf1, hf2) ==
    LET zeta1 == mask_to_nan(nc_read(d1, hf1))
        zeta2 == mask_to_nan(nc_read(d2, hf2))
    IN  [i \in 1..Len(zeta1) |-> Masked(Minus(zeta2[i], zeta1[i]), FALSE)]

RECURSIVE Sum(_)
Sum(s) == IF s = << >> THEN 0 ELSE Head(s) + Sum(Tail(s))

\* np.min
Min(s) == CHOOSE v \in Elems(s) : \A w \in Elems(s) : v <= w

\* np.max
Max(s) == CHOOSE v \in Elems(s) : \A w \in Elems(s) : v >= w

\* the statistics plot_difference takes of the valid entries; the mean is
\* kept as the sum and the count it divides
statistics(valid_data) ==
    IF Len(valid_data) = 0 THEN None
    ELSE Some([n |-> Len(valid_data), min |-> Min(valid_data),
               max |-> Max(valid_data), sum |-> Sum(valid_data)])

\* np.isclose(v, -99999.0): |v - b| <= atol + rtol * |b| with atol = 1e-8
\* and rtol = 1e-5, which for b = -99999.0 is 0.99999...; in tenths of a
\* metre that is a distance of at most 9
isclose_fill(v) ==
    v # NaN /\ v - FillValue <= 9 /\ FillValue - v <= 9

\* ~np.isnan(zeta_values) & ~np.isclose(zeta_values, -99999.0)
valid_mask(values) ==
    [i \in 1..Len(values) |-> values[i] # NaN /\ ~isclose_fill(values[i])]

\* zeta_values[valid_mask]
valid_zeta(values) ==
    LET keep == where(valid_mask(values))
    IN  Take(values, keep)

\* One step of a script on the loaded fields: it leaves d as the difference
\* and st as the statistics.
DiffStep(name, d, st) ==
    /\ pc = "start"
    /\ diff' = d
    /\ stats' = st
    /\ caller' = name
    /\ pc' = "done"
    /\ UNCHANGED <<data1, data2, has_fill1, has_fill2>>
    /\ UNCHANGED <<meshVars, stationVars, laterVars>>

\* plot_cwl_difference_timesteps: one timestep of main, compute_difference
\* and the statistics of plot_difference
difference_timestep ==
    LET d == compute_difference(data1, data2, has_fill1, has_fill2)
    IN  DiffStep("compute_difference", d, statistics(compressed(d)))

\* animate_cwl_diff.generate_animation: the difference of one frame
frame_difference ==
    DiffStep("generate_animation",
             nan_difference(data1, data2, has_fill1, has_fill2), None)

\* plot_enhanced_style.create_enhanced_plot: the difference of zeta_max
enhanced_difference ==
    DiffStep("create_enhanced_plot",
             nan_difference(data1, data2, has_fill1, has_fill2), None)

\* transect_timeseries_fort63.extract_transect_timeseries: the valid part
\* of the series at one transect point and its statistics
transect_point ==
    LET v == valid_zeta(data1)
    IN  DiffStep("extract_transect_timeseries", Plain(v), statistics(v))

\* the arrays of the concrete scenario, [1.0, -99999.0, 3.0] and
\* [1.5, 2.0, 3.5]
Scenario1 == <<10, FillValue, 30>>

Scenario2 == <<15, 20, 35>>

InitDiff ==
    /\ pc = "start"
    /\ caller = ""
    /\ x = << >> /\ y = << >> /\ elements = << >>
    /\ box = Mesh10Box
    /\ mesh = NoMesh
    /\ log = << >>
    /\ ret = None
    /\ \/ \E n \in 0..MaxLen :
              /\ data1 \in [1..n -> Values]
              /\ data2 \in [1..n -> Values]
       \/ data1 = Scenario1 /\ data2 = Scenario2
    /\ has_fill1 \in BOOLEAN
    /\ has_fill2 \in BOOLEAN
    /\ diff = << >>
    /\ stats = None
    /\ NoStations
    /\ NoLater

NextDiff ==
    \/ difference_timestep
    \/ frame_difference
    \/ enhanced_difference
    \/ transect_point

SpecDiff == InitDiff /\ [][NextDiff]_vars

\* ------------------------------------------------------------------------
\* Properties of the difference and its statistics
\* ------------------------------------------------------------------------

\* v is neither the fill sentinel nor beyond the bad-value threshold
Legitimate(v) == v # FillValue /\ v >= -DryLimit /\ v <= DryLimit

\* the scripts that difference the two fields
Differencers == {"compute_difference", "generate_animation", "create_enhanced_plot"}

\* the number of valid points the statistics were taken of
ValidCount == IF stats = None THEN 0 ELSE stats[1].n

\* the indices at which one of the two fields holds the fill sentinel
SentinelEntries ==
    {i \in 1..Len(data1) : data1[i] = FillValue \/ data2[i] = FillValue}

\* C7: when no value of either field is a fill sentinel or above the
\* bad-value threshold, the difference at every node is the second field's
\* value minus the first field's value at that node, in each script that
\* differences the fields, and the statistics are those of that difference.
C7_SecondMinusFirst ==
    (/\ pc = "done"
     /\ caller \in Differencers
     /\ \A i \in 1..Len(data1) : Legitimate(data1[i]) /\ Legitimate(data2[i])) =>
        /\ Len(diff) = Len(data1)
        /\ \A i \in 1..Len(diff) :
               ~diff[i].mask /\ diff[i].data = data2[i] - data1[i]
        /\ (caller = "compute_difference" /\ Len(data1) > 0) =>
               /\ stats # None
               /\ stats[1].n = Len(data1)
               /\ stats[1].sum = Sum(data2) - Sum(data1)
               /\ \E i \in 1..Len(data1) : stats[1].min = data2[i] - data1[i]
               /\ \A i \in 1..Len(data1) : stats[1].min <= data2[i] - data1[i]
               /\ \E i \in 1..Len(data1) : stats[1].max = data2[i] - data1[i]
               /\ \A i \in 1..Len(data1) : stats[1].max >= data2[i] - data1[i]

\* two fields of legitimate values that differ at a node were differenced
C7_Witness ==
    /\ pc = "done"
    /\ caller = "compute_difference"
    /\ Len(data1) >= 2
    /\ \A i \in 1..Len(data1) : Legitimate(data1[i]) /\ Legitimate(data2[i])
    /\ data2[1] - data1[1] > 0
    /\ diff[1].data = data2[1] - data1[1]

\* C8: for fields made of fill sentinels and legitimate values, the entries
\* left out of the statistics are exactly the sentinel entries: the number
\* of valid points is the number of points minus the number of entries
\* that hold a sentinel.
C8_ExcludesExactlySentinels ==
    /\ (/\ pc = "done"
        /\ caller = "compute_difference"
        /\ \A i \in 1..Len(data1) :
               /\ data1[i] = FillValue \/ Legitimate(data1[i])
               /\ data2[i] = FillValue \/ Legitimate(data2[i])) =>
           /\ ValidCount = Len(data1) - Cardinality(SentinelEntries)
           /\ \A i \in 1..Len(diff) : diff[i].mask <=> i \in SentinelEntries
    /\ (/\ pc = "done"
        /\ caller = "extract_transect_timeseries"
        /\ \A i \in 1..Len(data1) :
               data1[i] = FillValue \/ Legitimate(data1[i])) =>
           /\ ValidCount
                  = Len(data1) - Cardinality({i \in 1..Len(data1) : data1[i] = FillValue})
           /\ FillValue \notin {diff[i].data : i \in 1..Len(diff)}

\* a field with a sentinel and a legitimate value, read from a file whose
\* variable has no _FillValue attribute, was differenced and left one valid
\* point
C8_Witness ==
    /\ pc = "done"
    /\ caller = "compute_difference"
    /\ ~has_fill1
    /\ \A i \in 1..Len(data1) :
           /\ data1[i] = FillValue \/ Legitimate(data1[i])
           /\ Legitimate(data2[i])
    /\ FillValue \in Elems(data1)
    /\ ValidCount = Len(data1) - 1
    /\ ValidCount > 0

\* a series with a sentinel and a legitimate value was filtered at a
\* transect point
C8_WitnessTransect ==
    /\ pc = "done"
    /\ caller = "extract_transect_timeseries"
    /\ \A i \in 1..Len(data1) : data1[i] = FillValue \/ Legitimate(data1[i])
    /\ FillValue \in Elems(data1)
    /\ ValidCount = Len(data1) - 1
    /\ ValidCount > 0

\* C9: an index contributes to the filtered difference if and only if
\* neither input value at that index is a fill sentinel or over the
\* magnitude threshold; [1.0, -99999.0, 3.0] and [1.5, 2.0, 3.5] give the
\* valid differences [0.5, 0.5], index 1 left out, with mean 0.5.
C9_FilteredDifference ==
    (pc = "done" /\ caller = "compute_difference") =>
        /\ Len(diff) = Len(data1)
        /\ \A i \in 1..Len(diff) :
               ~diff[i].mask <=> (Legitimate(data1[i]) /\ Legitimate(data2[i]))
        /\ (data1 = Scenario1 /\ data2 = Scenario2) =>
               /\ compressed(diff) = <<5, 5>>
               /\ diff[2].mask
               /\ stats # None
               /\ stats[1].sum = 5 * stats[1].n

\* the scenario arrays were differenced
C9_Witness ==
    /\ pc = "done"
    /\ caller = "compute_difference"
    /\ data1 = <<10, -999990, 30>>
    /\ data2 = <<15, 20, 35>>
    /\ stats # None
    /\ stats[1].n = 2

\* ------------------------------------------------------------------------
\* Comparison of the stations of two files
\* ------------------------------------------------------------------------

MaxStations == 2

MaxList == 2

\* the station names found in the files, as character arrays: a name, the
\* same name padded with a blank, and another name
Names == {<<"a">>, <<"a", " ">>, <<"b">>}

RECURSIVE lstrip(_)
lstrip(s) == IF s # << >> /\ Head(s) = " " THEN lstrip(Tail(s)) ELSE s

RECURSIVE rstrip(_)
rstrip(s) ==
    IF s # << >> /\ s[Len(s)] = " " THEN rstrip(SubSeq(s, 1, Len(s) - 1)) ELSE s

\* str.strip()
strip(s) == lstrip(rstrip(s))

\* the loop `for j in range(n_stations): if info['name'] == name: found_idx
\* = j; break`, and list.index(name): the first index whose name is equal,
\* None if there is none
find_by_name(names, name) ==
    LET hits == {j \in 1..Len(names) : names[j] = name}
    IN  IF hits = {} THEN None
        ELSE Some((CHOOSE j \in hits : \A k \in hits : j <= k) - 1)

\* [name.strip() for name in station_names[:]]
station_name_list(names) == [j \in 1..Len(names) |-> strip(names[j])]

\* a paired record: station idx1 of the first file with idx2 of the second,
\* and the station name each side was taken under
Pair(i1, n1, i2, n2) == [idx1 |-> i1, name1 |-> n1, idx2 |-> i2, name2 |-> n2]

\* what a comparison leaves behind
StationStep(name, q, ps, messages, result) ==
    /\ pc = "start"
    /\ caller' = name
    /\ query' = q
    /\ pairs' = ps
    /\ log' = messages
    /\ ret' = result
    /\ pc' = "done"
    /\ UNCHANGED <<names1, names2, obs>>
    /\ UNCHANGED <<x, y, elements, box, mesh>>
    /\ UNCHANGED <<diffVars, laterVars>>

\* compare_side_by_side.create_side_by_side_plot for station station_idx of
\* the file with anomaly; coops_match tells whether a CO-OPS station was
\* found for it
create_side_by_side_plot ==
    \E station_idx \in 0..(Len(names1) - 1), coops_match \in BOOLEAN :
        LET q == [station_idx |-> station_idx, coops_match |-> coops_match]
            name == names1[station_idx + 1]
            found_idx == find_by_name(names2, name)
        IN  IF ~coops_match
            THEN StationStep("create_side_by_side_plot", q, << >>,
                             <<"no_coops_station">>, Some(FALSE))
            ELSE IF found_idx = None
            THEN StationStep("create_side_by_side_plot", q, << >>,
                             <<"station_not_found">>, Some(FALSE))
            ELSE LET p == Pair(station_idx, name, found_idx[1], names2[found_idx[1] + 1])
                 IN  IF station_idx \notin obs
                     THEN StationStep("create_side_by_side_plot", q, <<p>>,
                                      <<"no_observation_data">>, Some(FALSE))
                     ELSE StationStep("create_side_by_side_plot", q, <<p>>,
                                      <<"write_image">>, Some(TRUE))

\* the loop of collect_rmse_statistics over station_list: the pairs it
\* reads model data for
RECURSIVE rmse_pairs(_)
rmse_pairs(station_list) ==
    IF station_list = << >> THEN << >>
    ELSE LET station_idx == Head(station_list)
             name == names1[station_idx + 1]
             found_idx == find_by_name(names2, name)
             rest == rmse_pairs(Tail(station_list))
         IN  IF found_idx = None THEN rest
             ELSE <<Pair(station_idx, name, found_idx[1], names2[found_idx[1] + 1])>>
                      \o rest

\* generate_rmse_maps_v2.collect_rmse_statistics: the result rows are the
\* pairs whose station has observations
collect_rmse_statistics ==
    \E station_list \in SeqUpTo(0..(Len(names1) - 1), MaxList) :
        LET ps == rmse_pairs(station_list)
            results == SelectSeq(ps, LAMBDA p : p.idx1 \in obs)
        IN  StationStep("collect_rmse_statistics",
                        [station_list |-> station_list], ps, << >>,
                        Some([k \in 1..Len(results) |-> results[k].idx1]))

\* the body of plot_overlay's loop for one file: the entry appended to
\* all_data, or the warning, the error return or the IndexError instead
overlay_entry(names, station_idx, station_name) ==
    IF station_idx # None
    THEN IF station_idx[1] >= Len(names) THEN [kind |-> "raise"]
         ELSE [kind |-> "data", idx |-> station_idx[1],
               name |-> strip(names[station_idx[1] + 1])]
    ELSE IF station_name # None
    THEN LET target_idx == find_by_name(station_name_list(names), station_name[1])
         IN  IF target_idx = None THEN [kind |-> "warning"]
             ELSE [kind |-> "data", idx |-> target_idx[1],
                   name |-> strip(names[target_idx[1] + 1])]
    ELSE [kind |-> "error"]

\* extract_fort61.plot_overlay on the two files; it returns nothing, the log
\* tells how it ended
plot_overlay ==
    \E station_idx \in {None} \cup {Some(i) : i \in 0..(MaxStations - 1)},
       station_name \in {None} \cup {Some(n) : n \in Names} :
        LET q == [station_idx |-> station_idx, station_name |-> station_name]
            e1 == overlay_entry(names1, station_idx, station_name)
            e2 == overlay_entry(names2, station_idx, station_name)
            warn1 == IF e1.kind = "warning" THEN <<"warning_not_found">> ELSE << >>
            warn2 == IF e2.kind = "warning" THEN <<"warning_not_found">> ELSE << >>
        IN  IF e1.kind = "raise"
            THEN StationStep("plot_overlay", q, << >>, <<"raise">>, None)
            ELSE IF e1.kind = "error"
            THEN StationStep("plot_overlay", q, << >>, <<"error_no_station">>, None)
            ELSE IF e2.kind = "raise"
            THEN StationStep("plot_overlay", q, << >>, warn1 \o <<"raise">>, None)
            ELSE IF e1.kind = "data" /\ e2.kind = "data"
            THEN StationStep("plot_overlay", q,
                             <<Pair(e1.idx, e1.name, e2.idx, e2.name)>>,
                             <<"write_image">>, None)
            ELSE IF e1.kind = "data" \/ e2.kind = "data"
            THEN StationStep("plot_overlay", q, << >>,
                             warn1 \o warn2 \o <<"write_image">>, None)
            ELSE StationStep("plot_overlay", q, << >>,
                             warn1 \o warn2 \o <<"error_no_data">>, None)

InitStation ==
    /\ pc = "start"
    /\ caller = ""
    /\ x = << >> /\ y = << >> /\ elements = << >>
    /\ box = Mesh10Box
    /\ mesh = NoMesh
    /\ log = << >>
    /\ ret = None
    /\ NoDiff
    /\ names1 \in SeqUpTo(Names, MaxStations)
    /\ names2 \in SeqUpTo(Names, MaxStations)
    /\ obs \in SUBSET (0..(Len(names1) - 1))
    /\ query = << >>
    /\ pairs = << >>
    /\ NoLater

NextStation ==
    \/ create_side_by_side_plot
    \/ collect_rmse_statistics
    \/ plot_overlay

SpecStation == InitStation /\ [][NextStation]_vars

\* ------------------------------------------------------------------------
\* Properties of the station comparison
\* ------------------------------------------------------------------------

\* C10: when two station files are compared, the record of the second file
\* paired with a station of the first file is the one whose station name
\* is exactly equal, whatever the order of the stations in the two files.
C10_PairedByName ==
    pc = "done" =>
        \A k \in 1..Len(pairs) : pairs[k].name2 = pairs[k].name1

\* the comparisons that are not handed a station index pair by name
C10_PairedByNameUnlessIndexGiven ==
    (pc = "done" /\ ~(caller = "plot_overlay" /\ query.station_idx # None)) =>
        \A k \in 1..Len(pairs) : pairs[k].name2 = pairs[k].name1

\* the messages that tell the user a station was not found in a file
NotFoundWarnings == {"station_not_found", "warning_not_found"}

\* station idx (0-based) of the first file has no namesake in the second
AbsentFromSecond(idx) == find_by_name(names2, names1[idx + 1]) = None

\* C11: a station that is present in one of the two files but not in the
\* other is skipped with a warning message; no error is raised and the
\* remaining stations are still processed.
C11_SkippedWithWarning ==
    /\ (pc = "done" /\ caller = "collect_rmse_statistics") =>
           \A k \in 1..Len(query.station_list) :
               AbsentFromSecond(query.station_list[k]) =>
                   /\ Elems(log) \cap NotFoundWarnings # {}
                   /\ "raise" \notin Elems(log)
                   /\ \A j \in 1..Len(query.station_list) :
                          ~AbsentFromSecond(query.station_list[j]) =>
                              \E n \in 1..Len(pairs) :
                                  pairs[n].idx1 = query.station_list[j]
    /\ (pc = "done" /\ caller = "create_side_by_side_plot"
            /\ query.coops_match /\ AbsentFromSecond(query.station_idx)) =>
           /\ Elems(log) \cap NotFoundWarnings # {}
           /\ "raise" \notin Elems(log)
           /\ pairs = << >>
    /\ (pc = "done" /\ caller = "plot_overlay"
            /\ query.station_idx = None /\ query.station_name # None
            /\ (find_by_name(station_name_list(names1), query.station_name[1]) = None)
                   # (find_by_name(station_name_list(names2), query.station_name[1]) = None)) =>
           /\ Elems(log) \cap NotFoundWarnings # {}
           /\ "raise" \notin Elems(log)
           /\ "write_image" \in Elems(log)

\* a station without a namesake is skipped, raises nothing and does not stop
\* the stations after it; the two comparisons that look a single station up
\* also print the message
SkippedWithoutError ==
    /\ (pc = "done" /\ caller = "collect_rmse_statistics") =>
           /\ "raise" \notin Elems(log)
           /\ \A j \in 1..Len(query.station_list) :
                  AbsentFromSecond(query.station_list[j])
                      <=> ~\E n \in 1..Len(pairs) : pairs[n].idx1 = query.station_list[j]
    /\ (pc = "done" /\ caller = "create_side_by_side_plot"
            /\ query.coops_match /\ AbsentFromSecond(query.station_idx)) =>
           log = <<"station_not_found">> /\ ret = Some(FALSE)

\* ------------------------------------------------------------------------
\* Nearest-node lookup: Fort63Reader (offshore_timeseries) and the transect
\* extraction (STOFS_Fort_63_Timeseries)
\*
\* A distance is carried as its square: the square root of an integer is
\* not an integer in general, and the square root is strictly increasing,
\* so the node with the least distance is the node with the least squared
\* distance.  A distance in kilometres is carried as its square in tenths
\* of a kilometre: d degrees * 111 is (10 d) * 111 tenths of a kilometre.
\* ------------------------------------------------------------------------

MaxLookups == 2

\* the longitudes and latitudes of the nodes and of the query points
GridLon == 0..2

GridLat == 0..1

KmPerDegree == 111

\* (x - lon)**2 + (y - lat)**2 of node i, longitude only
dist_sq_lon_only(xs, ys, i, lon, lat) ==
    (xs[i + 1] - lon) * (xs[i + 1] - lon)

\* (x - lon)**2 + (y - lat)**2 of node i
dist_sq(xs, ys, i, lon, lat) ==
    (xs[i + 1] - lon) * (xs[i + 1] - lon)
        + (ys[i + 1] - lat) * (ys[i + 1] - lat)

\* cKDTree(np.column_stack([x, y]))
cKDTree(xs, ys) == [x |-> xs, y |-> ys]

\* a query that answers with any node of the tree
tree_query_any(t, lon, lat) ==
    {[dist_sq |-> dist_sq(t.x, t.y, i, lon, lat), idx |-> i] :
        i \in 0..(Len(t.x) - 1)}

\* tree.query([lon, lat]): the distance and the index of a nearest
\* neighbour; which one of several equally near nodes is not specified
tree_query(t, lon, lat) ==
    {[dist_sq |-> dist_sq(t.x, t.y, i, lon, lat), idx |-> i] :
        i \in {k \in 0..(Len(t.x) - 1) :
                  \A j \in 0..(Len(t.x) - 1) :
                      dist_sq(t.x, t.y, k, lon, lat)
                          <= dist_sq(t.x, t.y, j, lon, lat)}}

\* np.argmin(d): the index of the first least entry
argmin(d) ==
    CHOOSE i \in 0..(Len(d) - 1) :
        /\ \A j \in 0..(Len(d) - 1) : d[i + 1] <= d[j + 1]
        /\ \A j \in 0..(i - 1) : d[j + 1] > d[i + 1]

\* np.sqrt((x - tlon)**2 + (y - tlat)**2), squared
distances_sq(xs, ys, tlon, tlat) ==
    [k \in 1..Len(xs) |-> dist_sq(xs, ys, k - 1, tlon, tlat)]

\* Fort63Reader(nc_file, build_tree)
Fort63Reader ==
    /\ pc = "start"
    /\ \E build_tree \in BOOLEAN :
          /\ tree' = IF build_tree THEN Some(cKDTree(x, y)) ELSE None
          /\ tree_builds' = IF build_tree THEN tree_builds + 1 ELSE tree_builds
    /\ pc' = "reader"
    /\ caller' = "Fort63Reader"
    /\ UNCHANGED <<scans, lookups, nearest>>
    /\ UNCHANGED <<meshVars, diffVars, stationVars, frameVars, scriptVars,
                   tailVars>>

\* Fort63Reader.find_nearest_node(lon, lat)
find_nearest_node ==
    /\ pc = "reader"
    /\ lookups < MaxLookups
    /\ \E lon \in GridLon, lat \in GridLat :
          LET built == IF tree = None THEN cKDTree(x, y) ELSE tree[1]
          IN  /\ tree' = Some(built)
              /\ tree_builds' = IF tree = None THEN tree_builds + 1
                                ELSE tree_builds
              /\ query' = [lon |-> lon, lat |-> lat]
              /\ \E r \in tree_query(built, lon, lat) :
                    nearest' = Some([node_idx |-> r.idx,
                                     lon |-> x[r.idx + 1],
                                     lat |-> y[r.idx + 1],
                                     distance_km_sq |->
                                         r.dist_sq * KmPerDegree * KmPerDegree])
    /\ lookups' = lookups + 1
    /\ caller' = "find_nearest_node"
    /\ UNCHANGED <<pc, scans>>
    /\ UNCHANGED <<meshVars, diffVars, names1, names2, obs, pairs, frameVars,
                   scriptVars, tailVars>>

\* one iteration of the loop over the transect points of extract_transect:
\* the nearest node of the point (tlon, tlat)
transect_nearest ==
    /\ pc \in {"start", "transect"}
    /\ lookups < MaxLookups
    /\ \E tlon \in GridLon, tlat \in GridLat :
          /\ query' = [lon |-> tlon, lat |-> tlat]
          /\ nearest' = Some([node_idx |->
                                 argmin(distances_sq(x, y, tlon, tlat))])
    /\ scans' = scans + 1
    /\ lookups' = lookups + 1
    /\ pc' = "transect"
    /\ caller' = "extract_transect"
    /\ UNCHANGED <<tree, tree_builds>>
    /\ UNCHANGED <<meshVars, diffVars, names1, names2, obs, pairs, frameVars,
                   scriptVars, tailVars>>

InitNearest ==
    /\ pc = "start"
    /\ caller = ""
    /\ \E n \in 1..MaxNodes :
          /\ x \in [1..n -> GridLon]
          /\ y \in [1..n -> GridLat]
    /\ elements = << >>
    /\ box = Mesh10Box
    /\ mesh = NoMesh
    /\ log = << >>
    /\ ret = None
    /\ NoDiff
    /\ NoStations
    /\ NoNearest
    /\ NoFrames
    /\ NoScripts
    /\ NoTail

NextNearest ==
    \/ Fort63Reader
    \/ find_nearest_node
    \/ transect_nearest

SpecNearest == InitNearest /\ [][NextNearest]_vars

\* ------------------------------------------------------------------------
\* Claims about the nearest-node lookup
\* ------------------------------------------------------------------------

LookedUp == caller \in {"find_nearest_node", "extract_transect"}

\* the squared distance of node i from the query point
QueryDistSq(i) ==
    (x[i + 1] - query.lon) * (x[i + 1] - query.lon)
        + (y[i + 1] - query.lat) * (y[i + 1] - query.lat)

\* the nodes at the query point
Coincident == {i \in 0..(Len(x) - 1) : QueryDistSq(i) = 0}

C12_WitnessTransect ==
    /\ caller = "extract_transect"
    /\ Coincident = {}
    /\ \E j \in 0..(Len(x) - 1) :
          QueryDistSq(j) > QueryDistSq(nearest[1].node_idx)
    /\ nearest[1].node_idx > 0

\* C13: a query point that coincides with a mesh node returns that node (a
\* node at that position), with distance 0.
C13_CoincidentNode ==
    (LookedUp /\ Coincident # {}) =>
        /\ nearest # None
        /\ nearest[1].node_idx \in Coincident
        /\ caller = "find_nearest_node" =>
              /\ nearest[1].distance_km_sq = 0
              /\ nearest[1].lon = query.lon
              /\ nearest[1].lat = query.lat

\* the query point is a node that is neither the first nor the only node
C13_Witness ==
    /\ caller = "find_nearest_node"
    /\ Len(x) > 1
    /\ Coincident = {nearest[1].node_idx}
    /\ nearest[1].node_idx > 0

C13_WitnessTransect ==
    /\ caller = "extract_transect"
    /\ Len(x) > 1
    /\ Coincident = {nearest[1].node_idx}
    /\ nearest[1].node_idx > 0

\* ------------------------------------------------------------------------
\* Frame-parallel rendering: generate_animation (animate_cwl_diff.py),
\* generate_snapshot_sequence (generate_snapshot_sequence.py) and main of
\* plot_zeta_us_pr.py, each with its worker function
\*
\* A string is the sequence of the code points of its characters.  The
\* model follows a window of MaxFrames consecutive frames of a batch, the
\* frames first .. first + n - 1; the data of time step t is the number t.
\* ------------------------------------------------------------------------

MaxFrames == 3

MaxWorkers == 2

\* the first frame index of the windows followed
WindowStarts == {0, 9, 9998}

\* the values of skip_frames tried
Skips == {1, 2}

nowcast_hours == 6

\* the characters of str(n), n >= 0
RECURSIVE digits(_)
digits(n) ==
    IF n < 10 THEN <<48 + n>>
    ELSE Append(digits(n \div 10), 48 + (n % 10))

\* f"{n:0{w}d}", n >= 0: padded with zeros to at least w characters
format_0wd(n, w) ==
    LET d == digits(n)
    IN  [i \in 1..(w - Len(d)) |-> 48] \o d

\* "frame_", "snapshot_", "zeta_", "_", ".png", "nowcast", "forecast"
str_frame == <<102, 114, 97, 109, 101, 95>>

str_snapshot == <<115, 110, 97, 112, 115, 104, 111, 116, 95>>

str_zeta == <<122, 101, 116, 97, 95>>

str_underscore == <<95>>

str_png == <<46, 112, 110, 103>>

str_nowcast == <<110, 111, 119, 99, 97, 115, 116>>

str_forecast == <<102, 111, 114, 101, 99, 97, 115, 116>>

\* a < b for Python strings: lexicographic by code point
str_lt(a, b) ==
    \E k \in 1..(Len(a) + 1) :
        /\ \A i \in 1..(k - 1) : i <= Len(b) /\ a[i] = b[i]
        /\ k <= Len(b)
        /\ (k <= Len(a) => a[k] < b[k])

\* list.sort() of a list of strings
RECURSIVE list_sort(_)
list_sort(l) ==
    IF l = << >> THEN << >>
    ELSE LET m == CHOOSE i \in 1..Len(l) :
                      /\ \A j \in 1..Len(l) : ~ str_lt(l[j], l[i])
                      /\ \A j \in 1..(i - 1) : l[j] # l[i]
             rest == [k \in 1..(Len(l) - 1) |->
                         IF k < m THEN l[k] ELSE l[k + 1]]
         IN  <<l[m]>> \o list_sort(rest)

\* one path for every frame
frame_file_shared(task) == str_frame \o format_0wd(0, 4) \o str_png

\* frame_file of generate_single_frame: f'frame_{frame_idx:04d}.png'
frame_file(task) == str_frame \o format_0wd(task.frame_idx, 4) \o str_png

\* output_file of generate_single_snapshot: f'snapshot_{t_idx:03d}.png'
snapshot_file(task) == str_snapshot \o format_0wd(task.t_idx, 3) \o str_png

\* 'FORECAST' if hours_from_start >= 6 else 'NOWCAST', lower case
stage_lower(t_sec) ==
    IF t_sec \div 3600 >= 6 THEN str_forecast ELSE str_nowcast

\* output_file of plot_single_timestep:
\* f'zeta_{idx+1:02d}_{stage.lower()}_{hour_str}.png'; hour_str, the time
\* stamp to the minute, is the count of minutes since the base date
zeta_file(task) ==
    str_zeta \o format_0wd(task.frame_idx + 1, 2) \o str_underscore
        \o stage_lower(task.t_sec) \o str_underscore
        \o format_0wd(task.t_sec \div 60, 4) \o str_png

\* the path a task's worker writes
output_file(script, task) ==
    IF script = "generate_animation" THEN frame_file(task)
    ELSE IF script = "generate_snapshot_sequence" THEN snapshot_file(task)
    ELSE zeta_file(task)

\* the picture a task's worker draws: the field of its time step and the
\* label of its period, from its own arguments (the worker of
\* plot_zeta_us_pr.py reads the field of its time step from the file)
picture(script, task) ==
    [field |-> IF task.data # None THEN task.data[1] ELSE task.t_idx,
     period |-> IF script = "plot_zeta_us_pr"
                THEN stage_lower(task.t_sec)
                ELSE IF task.t_idx < nowcast_hours THEN str_nowcast
                ELSE str_forecast]

\* the tasks of the window: frame k of the batch shows time step k * skip
window_tasks(first, n, skip, preloaded) ==
    [k \in 1..n |->
        [frame_idx |-> first + k - 1,
         t_idx |-> (first + k - 1) * skip,
         t_sec |-> (first + k - 1) * skip * 3600,
         data |-> IF preloaded THEN Some((first + k - 1) * skip) ELSE None]]

\* the numbers of processors tried
CpuCounts == {2, 16}

worker_cap == 8

snapshot_default_workers == 4

zeta_max_workers == 4

Min2(a, b) == IF a <= b THEN a ELSE b

\* the pool size of generate_animation without the cap
animation_workers_uncapped(asked, cpu_count) ==
    IF asked = None THEN cpu_count ELSE asked[1]

\* the pool size of generate_animation: --workers when given, else
\* n_workers = min(cpu_count(), 8)
animation_workers(asked, cpu_count) ==
    IF asked = None THEN Min2(cpu_count, worker_cap) ELSE asked[1]

\* the pool size of generate_snapshot_sequence: --workers, 4 by default
snapshot_workers(asked) ==
    IF asked = None THEN snapshot_default_workers ELSE asked[1]

\* the pool size of plot_zeta_us_pr.py: n_workers = min(4, total)
zeta_workers(total) == Min2(zeta_max_workers, total)

\* the values of --workers tried: none, or a count
WorkerArgs == {None} \cup {Some(w) : w \in 1..MaxWorkers}

\* the main process up to the creation of the pool
PoolStart(script, tasks, asked, cpu_count, workers) ==
    /\ pc = "start"
    /\ frame_args' = tasks
    /\ n_workers' = workers
    /\ inputs' = [workers |-> asked, cpu_count |-> cpu_count]
    /\ task_results' = [k \in 1..Len(tasks) |-> None]
    /\ nc_open' = {}
    /\ pc' = "pool"
    /\ caller' = script
    /\ UNCHANGED <<taken, worker_opens, files, collected, frame_files, encoded>>
    /\ UNCHANGED <<exit_status, time_labels, attempts>>
    /\ UNCHANGED <<meshVars, diffVars, stationVars, nearestVars, tailVars>>

\* generate_animation: open both files, load the difference of every frame,
\* close both files, start a pool of n_workers processes
animation_preload ==
    \E n \in 1..MaxFrames, first \in WindowStarts, skip \in Skips,
       asked \in WorkerArgs, cpu_count \in CpuCounts :
        PoolStart("generate_animation", window_tasks(first, n, skip, TRUE),
                  asked, cpu_count, animation_workers(asked, cpu_count))

\* generate_snapshot_sequence: the same with timesteps = range(0, n_times, skip)
snapshot_preload ==
    \E n \in 1..MaxFrames, first \in WindowStarts, skip \in Skips,
       asked \in WorkerArgs, cpu_count \in CpuCounts :
        PoolStart("generate_snapshot_sequence",
                  window_tasks(first, n, skip, TRUE),
                  asked, cpu_count, snapshot_workers(asked))

\* main of plot_zeta_us_pr.py: read the grid of the first file, close it,
\* start a pool of min(4, total) processes on (idx, fpath, t_idx, t_sec, total)
plot_zeta_main ==
    \E n \in 1..MaxFrames, first \in WindowStarts, cpu_count \in CpuCounts :
        PoolStart("plot_zeta_us_pr", window_tasks(first, n, 1, FALSE),
                  None, cpu_count, zeta_workers(first + n))

\* the tasks a worker is running
Running == {i \in taken : task_results[i] = None}

\* a free worker takes the next task of the queue; the worker of
\* plot_zeta_us_pr.py opens the task's file and reads its time step
worker_start ==
    /\ pc = "pool"
    /\ Cardinality(Running) < n_workers
    /\ Cardinality(taken) < Len(frame_args)
    /\ LET i == Cardinality(taken) + 1
       IN  /\ taken' = taken \cup {i}
           /\ worker_opens' = IF caller = "plot_zeta_us_pr"
                              THEN worker_opens \cup {i}
                              ELSE worker_opens
    /\ UNCHANGED <<pc, caller, nc_open, frame_args, n_workers, task_results,
                   files, collected, frame_files, encoded>>
    /\ UNCHANGED <<meshVars, diffVars, stationVars, nearestVars, scriptVars,
                   tailVars>>

\* a worker is through with its task: it wrote its image and returns the
\* path, or the rendering raised.  plot_single_timestep catches the
\* exception and returns a message; the other two workers let it go, and
\* the pool sends it to the main process as the task's result
worker_finish ==
    /\ pc = "pool"
    /\ \E i \in Running, raises \in BOOLEAN :
          LET task == frame_args[i]
              path == output_file(caller, task)
          IN  /\ files' = IF raises THEN files
                          ELSE {f \in files : f.path # path}
                                   \cup {[path |-> path,
                                          content |-> picture(caller, task)]}
              /\ task_results' =
                     [task_results EXCEPT ![i] =
                         IF caller = "plot_zeta_us_pr"
                         THEN Some([raised |-> FALSE,
                                    value |-> <<IF raises THEN "FAILED"
                                                ELSE "->",
                                                task.frame_idx + 1>>])
                         ELSE IF raises
                         THEN Some([raised |-> TRUE, value |-> << >>])
                         ELSE Some([raised |-> FALSE, value |-> path])]
    /\ UNCHANGED <<pc, caller, nc_open, frame_args, n_workers, taken,
                   worker_opens, collected, frame_files, encoded>>
    /\ UNCHANGED <<meshVars, diffVars, stationVars, nearestVars, scriptVars,
                   tailVars>>

\* one iteration of `for i, frame_file in enumerate(pool.imap(...))`: the
\* next result in submission order.  A result that is an exception is
\* raised again here; nothing catches it, so leaving the `with Pool` block
\* terminates the pool and the exception ends the script
imap_next ==
    /\ pc = "pool"
    /\ caller \in {"generate_animation", "generate_snapshot_sequence"}
    /\ collected < Len(frame_args)
    /\ task_results[collected + 1] # None
    /\ LET r == task_results[collected + 1][1]
       IN  IF r.raised
           THEN /\ pc' = "aborted"
                /\ log' = Append(log, "traceback")
                /\ UNCHANGED <<collected, frame_files>>
           ELSE /\ collected' = collected + 1
                /\ frame_files' = IF caller = "generate_animation"
                                  THEN Append(frame_files, r.value)
                                  ELSE frame_files
                /\ UNCHANGED <<pc, log>>
    /\ UNCHANGED <<caller, nc_open, frame_args, n_workers, taken,
                   task_results, worker_opens, files, encoded>>
    /\ UNCHANGED <<x, y, elements, box, mesh, ret>>
    /\ UNCHANGED <<diffVars, stationVars, nearestVars, scriptVars,
                   tailVars>>

\* generate_animation after the pool: frame_files.sort(), then the encoder
animation_encode ==
    /\ pc = "pool"
    /\ caller = "generate_animation"
    /\ collected = Len(frame_args)
    /\ encoded' = Some(list_sort(frame_files))
    /\ ret' = Some(TRUE)
    /\ pc' = "done"
    /\ UNCHANGED <<caller, nc_open, frame_args, n_workers, taken,
                   task_results, worker_opens, files, collected, frame_files>>
    /\ UNCHANGED <<x, y, elements, box, mesh, log>>
    /\ UNCHANGED <<diffVars, stationVars, nearestVars, scriptVars,
                   tailVars>>

\* generate_snapshot_sequence after the pool
snapshot_return ==
    /\ pc = "pool"
    /\ caller = "generate_snapshot_sequence"
    /\ collected = Len(frame_args)
    /\ ret' = Some(TRUE)
    /\ pc' = "done"
    /\ UNCHANGED <<caller, frameVars>>
    /\ UNCHANGED <<x, y, elements, box, mesh, log>>
    /\ UNCHANGED <<diffVars, stationVars, nearestVars, scriptVars,
                   tailVars>>

\* main of plot_zeta_us_pr.py after pool.map: every task is through, the
\* results are printed in submission order
plot_zeta_print ==
    /\ pc = "pool"
    /\ caller = "plot_zeta_us_pr"
    /\ \A i \in 1..Len(frame_args) : task_results[i] # None
    /\ collected' = Len(frame_args)
    /\ log' = [i \in 1..Len(frame_args) |-> task_results[i][1].value]
    /\ pc' = "done"
    /\ UNCHANGED <<caller, nc_open, frame_args, n_workers, taken,
                   task_results, worker_opens, files, frame_files, encoded>>
    /\ UNCHANGED <<x, y, elements, box, mesh, ret>>
    /\ UNCHANGED <<diffVars, stationVars, nearestVars, scriptVars,
                   tailVars>>

InitFrames ==
    /\ pc = "start"
    /\ caller = ""
    /\ x = << >> /\ y = << >> /\ elements = << >>
    /\ box = Mesh10Box
    /\ mesh = NoMesh
    /\ log = << >>
    /\ ret = None
    /\ NoDiff
    /\ NoStations
    /\ NoNearest
    /\ NoFrames
    /\ NoScripts
    /\ NoTail

NextFrames ==
    \/ animation_preload
    \/ snapshot_preload
    \/ plot_zeta_main
    \/ worker_start
    \/ worker_finish
    \/ imap_next
    \/ animation_encode
    \/ snapshot_return
    \/ plot_zeta_print

SpecFrames == InitFrames /\ [][NextFrames]_vars

\* ------------------------------------------------------------------------
\* Claims about the frame-parallel rendering
\* ------------------------------------------------------------------------

Tasks == 1..Len(frame_args)

\* task i is through and its rendering raised
RenderFailed(i) ==
    /\ task_results[i] # None
    /\ \/ task_results[i][1].raised
       \/ /\ caller = "plot_zeta_us_pr"
          /\ task_results[i][1].value[1] = "FAILED"

\* task i is through and its image is written
Rendered(i) == task_results[i] # None /\ ~ RenderFailed(i)

\* the image of task i is in the output directory
ImageOf(i) ==
    [path |-> output_file(caller, frame_args[i]),
     content |-> picture(caller, frame_args[i])]

\* the main process said that the frame of task i failed
Reported(i) ==
    \E k \in 1..Len(log) : log[k] = <<"FAILED", frame_args[i].frame_idx + 1>>

Ended == pc \in {"done", "aborted"}

\* the frame paths of a sequential run, in order
SequentialPaths == [k \in Tasks |-> frame_file(frame_args[k])]

\* C14: however the workers complete, the frame paths sorted by file name
\* are the paths of a sequential run in order, so the encoder gets the
\* frames in temporal order.
C14_SortedIsSequential ==
    (caller = "generate_animation" /\ pc = "done") =>
        encoded = Some(SequentialPaths)

\* the same for batches of at most 10000 frames, whose frame indices have
\* at most four digits
SortedIsSequentialUpTo9999 ==
    (/\ caller = "generate_animation"
     /\ pc = "done"
     /\ \A k \in Tasks : frame_args[k].frame_idx <= 9999) =>
        encoded = Some(SequentialPaths)

\* C15: the failure of one frame does not abort the batch: the main process
\* says which frame failed and every other frame is rendered.
C15_FailureIsolated ==
    (Ended /\ \E i \in Tasks : RenderFailed(i)) =>
        /\ pc = "done"
        /\ \A i \in Tasks : task_results[i] # None
        /\ \A i \in Tasks : RenderFailed(i) => Reported(i)
        /\ \A i \in Tasks : ~ RenderFailed(i) => ImageOf(i) \in files

\* the same for plot_zeta_us_pr.py alone
ZetaFailureIsolated ==
    (caller = "plot_zeta_us_pr" /\ Ended /\ \E i \in Tasks : RenderFailed(i)) =>
        /\ pc = "done"
        /\ \A i \in Tasks : task_results[i] # None
        /\ \A i \in Tasks : RenderFailed(i) => Reported(i)
        /\ \A i \in Tasks : ~ RenderFailed(i) => ImageOf(i) \in files

\* C19: when the first task is dispatched the main process has loaded the
\* array of every frame and closed the source files, and no worker opens or
\* reads a source file.
C19_PreloadedBeforeDispatch ==
    pc = "pool" =>
        /\ nc_open = {}
        /\ \A i \in Tasks : frame_args[i].data # None
        /\ worker_opens = {}

\* the same for generate_animation and generate_snapshot_sequence alone
PreloadedByAnimationAndSnapshots ==
    (pc = "pool" /\ caller # "plot_zeta_us_pr") =>
        /\ nc_open = {}
        /\ \A i \in Tasks : frame_args[i].data # None
        /\ worker_opens = {}

MaxRegions == 3

MaxSteps == 2

\* seconds: subprocess.run(cmd, ..., timeout=300)
subprocess_timeout == 300

\* how the plotting subprocess of a region can end: it exits with 0 and
\* its file exists, it exits with another code and there is no file, it
\* exits with 0 and there is no file, it exits with another code and a file
\* is there, it runs out of time, or starting it raises
Outcomes ==
    {"ok", "failed", "no_output", "stale_output", "timeout", "exception"}

\* result.returncode == 0
returncode_zero(outcome) == outcome \in {"ok", "no_output"}

\* os.path.exists(output_file) after the subprocess
output_exists(outcome) == outcome \in {"ok", "stale_output"}

\* a test of the return code alone
region_succeeded_by_code(outcome) == returncode_zero(outcome)

\* result.returncode == 0 and os.path.exists(output_file)
region_succeeded(outcome) ==
    returncode_zero(outcome) /\ output_exists(outcome)

\* what the loop logs for an outcome
region_message(outcome) ==
    IF region_succeeded(outcome) THEN "Saved"
    ELSE IF outcome = "timeout" THEN "Timeout"
    ELSE IF outcome = "exception" THEN "Exception"
    ELSE "Failed"

\* a loop that a timeout ends
RECURSIVE region_loop_until_timeout(_, _)
region_loop_until_timeout(outcomes, k) ==
    IF k > Len(outcomes) THEN << >>
    ELSE <<[region |-> k, timeout |-> subprocess_timeout,
            outcome |-> outcomes[k]]>>
             \o (IF outcomes[k] = "timeout" THEN << >>
                 ELSE region_loop_until_timeout(outcomes, k + 1))

\* `for region_key, region_config in REGIONS.items()` from region k on:
\* one subprocess per region, whatever became of the one before
RECURSIVE region_loop(_, _)
region_loop(outcomes, k) ==
    IF k > Len(outcomes) THEN << >>
    ELSE <<[region |-> k, timeout |-> subprocess_timeout,
            outcome |-> outcomes[k]]>>
             \o region_loop(outcomes, k + 1)

\* a script run or a function call that ends with the given effects
ScriptRuns(name, found, status, labels, made, messages, result) ==
    /\ pc = "start"
    /\ inputs' = found
    /\ exit_status' = status
    /\ time_labels' = labels
    /\ attempts' = made
    /\ log' = messages
    /\ ret' = result
    /\ caller' = name
    /\ pc' = "done"
    /\ UNCHANGED <<x, y, elements, box, mesh>>
    /\ UNCHANGED <<diffVars, stationVars, nearestVars, frameVars, tailVars>>

\* generate_regional_plots(bias_corrected_file, no_anomaly_file, ...)
generate_regional_plots ==
    \E files_exist \in BOOLEAN, n \in 1..MaxRegions :
        \E outcomes \in [1..n -> Outcomes] :
            LET found == [files_exist |-> files_exist, outcomes |-> outcomes]
                made == region_loop(outcomes, 1)
                success_count ==
                    Cardinality({k \in 1..Len(made) :
                                    region_succeeded(made[k].outcome)})
            IN  IF ~ files_exist
                THEN ScriptRuns("generate_regional_plots", found, None, None,
                                << >>, <<"Missing input files">>, Some(FALSE))
                ELSE ScriptRuns("generate_regional_plots", found, None, None,
                                made,
                                [k \in 1..Len(made) |->
                                    region_message(made[k].outcome)],
                                Some(success_count = n))

\* the time-units strings tried: "seconds since D" with the date D written
\* as %Y-%m-%d %H:%M:%S, as %Y-%m-%d %H:%M or as %Y-%m-%d, "seconds since"
\* followed by something that is no date, and a string without "since"
Units == {"ymd_hms", "ymd_hm", "ymd", "bad_date", "no_since"}

\* num2date(times, time_units) raises
num2date_raises(units) == units \in {"bad_date", "no_since"}

\* datetime.strptime(time_units.split('since ')[-1], '%Y-%m-%d %H:%M') raises
strptime_hm_raises(units) == units # "ymd_hm"

\* the base date of the transect script: the first of three formats that
\* parses the text after "since", else datetime(1990, 1, 1)
transect_base_date(units) ==
    IF units \in {"ymd_hms", "ymd_hm", "ymd"} THEN "date_of_file"
    ELSE "1990-01-01"

\* the label "Step N"
step_label(n) == [text |-> "Step", base |-> "", step |-> n]

\* the label of a date: the base date and the time of step n after it
date_label(base, n) == [text |-> "date", base |-> base, step |-> n]

\* time_str of every step in generate_animation
animation_labels(units, n_times) ==
    [k \in 1..n_times |->
        IF num2date_raises(units) THEN step_label(k - 1)
        ELSE date_label("date_of_file", k - 1)]

\* main of animate_cwl_diff.py
animate_cwl_diff_main ==
    \E missing \in SUBSET {"noanomaly_file", "anomaly_file"},
       region_empty \in BOOLEAN, units \in Units, n_times \in 1..MaxSteps :
        LET found == [missing |-> missing, selection_empty |-> region_empty,
                      units |-> units, n_times |-> n_times]
        IN  IF missing # {}
            THEN ScriptRuns("animate_cwl_diff_main", found, Some(1), None,
                            << >>, <<"Error: File not found">>, None)
            ELSE IF region_empty
            THEN ScriptRuns("animate_cwl_diff_main", found, Some(1), None,
                            << >>,
                            <<"Error: No triangles in region",
                              "Animation generation failed">>,
                            Some(FALSE))
            ELSE ScriptRuns("animate_cwl_diff_main", found, Some(0),
                            Some(animation_labels(units, n_times)), << >>,
                            <<"Animation generation complete!">>, Some(TRUE))

\* main of plot_station_comparison.py; the station match is empty when none
\* of STATIONS_TO_PLOT is found in station.in
plot_station_comparison_main ==
    \E missing \in SUBSET {"station.in", "ufs_staout_1", "op_staout_1"},
       match_empty \in BOOLEAN, n_times \in 1..MaxSteps :
        LET found == [missing |-> missing, selection_empty |-> match_empty,
                      units |-> "ymd", n_times |-> n_times]
        IN  IF missing # {}
            THEN ScriptRuns("plot_station_comparison_main", found, Some(0),
                            None, << >>, <<"ERROR: file not found">>, None)
            ELSE ScriptRuns("plot_station_comparison_main", found, Some(0),
                            None, << >>,
                            IF match_empty THEN <<"[SKIP]", "Complete!">>
                            ELSE <<"[OK]", "Complete!">>,
                            None)

\* main of extract_fort61.py calling extract_station_data; an exception that
\* nothing catches ends the process with a traceback and exit status 1
extract_fort61_main ==
    \E missing \in SUBSET {"nc_file"}, match_empty \in BOOLEAN,
       units \in Units, n_times \in 1..MaxSteps :
        LET found == [missing |-> missing, selection_empty |-> match_empty,
                      units |-> units, n_times |-> n_times]
        IN  IF missing # {}
            THEN ScriptRuns("extract_fort61_main", found, Some(0), None,
                            << >>, <<"Error opening file">>, None)
            ELSE IF strptime_hm_raises(units)
            THEN ScriptRuns("extract_fort61_main", found, Some(1), None,
                            << >>, <<"traceback">>, None)
            ELSE IF match_empty
            THEN ScriptRuns("extract_fort61_main", found, Some(0), None,
                            << >>, <<"No specific stations requested">>, None)
            ELSE ScriptRuns("extract_fort61_main", found, Some(0),
                            Some([k \in 1..n_times |->
                                     date_label("date_of_file", k - 1)]),
                            << >>, << >>, None)

\* main of transect_timeseries_fort63.py calling extract_transect_timeseries
transect_main ==
    \E missing \in SUBSET {"nc_file"}, units \in Units,
       n_times \in 1..MaxSteps :
        LET found == [missing |-> missing, selection_empty |-> FALSE,
                      units |-> units, n_times |-> n_times]
        IN  IF missing # {}
            THEN ScriptRuns("transect_main", found, Some(0), None,
                            << >>, <<"Error opening file">>, None)
            ELSE ScriptRuns("transect_main", found, Some(0),
                            Some([k \in 1..n_times |->
                                     date_label(transect_base_date(units),
                                                k - 1)]),
                            << >>, << >>, None)

InitScripts ==
    /\ pc = "start"
    /\ caller = ""
    /\ x = << >> /\ y = << >> /\ elements = << >>
    /\ box = Mesh10Box
    /\ mesh = NoMesh
    /\ log = << >>
    /\ ret = None
    /\ NoDiff
    /\ NoStations
    /\ NoNearest
    /\ NoFrames
    /\ NoScripts
    /\ NoTail

NextScripts ==
    \/ generate_regional_plots
    \/ animate_cwl_diff_main
    \/ plot_station_comparison_main
    \/ extract_fort61_main
    \/ transect_main

SpecScripts == InitScripts /\ [][NextScripts]_vars

\* ------------------------------------------------------------------------
\* Claims about the script runs
\* ------------------------------------------------------------------------

\* C16: every regional subprocess runs under the fixed timeout, and a
\* timeout fails its own region only: every region is attempted.
C16_TimeoutPerRegion ==
    (caller = "generate_regional_plots" /\ inputs.files_exist) =>
        /\ Len(attempts) = Len(inputs.outcomes)
        /\ \A k \in 1..Len(attempts) :
              /\ attempts[k].region = k
              /\ attempts[k].timeout = 300
              /\ attempts[k].outcome = "timeout" => log[k] = "Timeout"
        /\ ret = Some(\A k \in 1..Len(attempts) : attempts[k].outcome = "ok")

\* the first region timed out and a later region was plotted
C16_Witness ==
    /\ caller = "generate_regional_plots"
    /\ Len(attempts) = 3
    /\ attempts[1].outcome = "timeout"
    /\ attempts[2].outcome = "failed"
    /\ attempts[3].outcome = "ok"
    /\ log = <<"Timeout", "Failed", "Saved">>
    /\ ret = Some(FALSE)

Mains == {"animate_cwl_diff_main", "plot_station_comparison_main",
          "extract_fort61_main", "transect_main"}

\* C17: a script ends with exit status 1 whenever a required input file is
\* missing or its region selection or station match is empty.
C17_ExitsWithOne ==
    (/\ caller \in Mains
     /\ pc = "done"
     /\ (inputs.missing # {} \/ inputs.selection_empty)) =>
        exit_status = Some(1)

\* the same for animate_cwl_diff.py alone
AnimationExitsWithOne ==
    (/\ caller = "animate_cwl_diff_main"
     /\ pc = "done"
     /\ (inputs.missing # {} \/ inputs.selection_empty)) =>
        exit_status = Some(1)

\* the run read the time units: its files are there
ReadUnits ==
    /\ caller \in {"animate_cwl_diff_main", "extract_fort61_main",
                   "transect_main"}
    /\ pc = "done"
    /\ inputs.missing = {}

Malformed(units) == units \in {"bad_date", "no_since"}

\* C18: a malformed time-units string never aborts the run, and the label
\* of step N is then "Step N".
C18_FallsBackToStepN ==
    (ReadUnits /\ Malformed(inputs.units)) =>
        /\ "traceback" \notin Elems(log)
        /\ time_labels # None =>
              \A k \in 1..Len(time_labels[1]) :
                  time_labels[1][k] = step_label(k - 1)

\* the same for animate_cwl_diff.py alone
AnimationFallsBackToStepN ==
    (/\ ReadUnits
     /\ caller = "animate_cwl_diff_main"
     /\ Malformed(inputs.units)) =>
        /\ "traceback" \notin Elems(log)
        /\ time_labels # None =>
              \A k \in 1..Len(time_labels[1]) :
                  time_labels[1][k] = step_label(k - 1)

\* ------------------------------------------------------------------------
\* Claims about the size of the pool
\* ------------------------------------------------------------------------

PoolStarted == pc \in {"pool", "done", "aborted"}

\* C21: the pool has one number of worker processes for the whole run: the
\* count the user gave when there is one, else a default of at most 8; no
\* more tasks than that are ever running.
C21_FixedPoolSize ==
    PoolStarted =>
        /\ inputs.workers # None => n_workers = inputs.workers[1]
        /\ inputs.workers = None => n_workers \in 1..8
        /\ Cardinality(Running) <= n_workers

\* the size of the pool does not change once the pool is started
PoolSizeNeverChanges ==
    [][pc = "pool" => (n_workers' = n_workers /\ inputs' = inputs)]_vars

\* a run of generate_animation on 16 processors without --workers
C21_Witness ==
    /\ caller = "generate_animation"
    /\ pc = "pool"
    /\ inputs.workers = None
    /\ inputs.cpu_count = 16
    /\ n_workers = 8
    /\ Cardinality(Running) = 2

\* a run with --workers 1 never has two tasks running
C21_WitnessAsked ==
    /\ caller = "generate_snapshot_sequence"
    /\ pc = "pool"
    /\ inputs.workers = Some(1)
    /\ n_workers = 1
    /\ Cardinality(Running) = 1
    /\ Cardinality(taken) = 2

\* ------------------------------------------------------------------------
\* Claims about the spatial index
\* ------------------------------------------------------------------------

\* C22: over any sequence of lookups against one mesh the spatial index is
\* built at most once, and no lookup is answered by a scan over all nodes.
C22_IndexBuiltOnce ==
    /\ tree_builds <= 1
    /\ scans = 0
    /\ lookups > 0 => tree_builds = 1

\* the same for the lookups of Fort63Reader alone
ReaderIndexBuiltOnce ==
    caller \in {"Fort63Reader", "find_nearest_node"} =>
        /\ tree_builds <= 1
        /\ scans = 0
        /\ lookups > 0 => (tree_builds = 1 /\ tree # None)

\* ------------------------------------------------------------------------
\* Triangle mask of create_enhanced_plot (plot_enhanced_style.py)
\*
\* Lengths are in tenths of a degree and field values in tenths of a metre.
\* An edge length is carried as its square, and the edge threshold
\* min(5.0, region_width / 30) as 30 times its value, so that
\* edge > threshold is 30 * edge > 30 * threshold, compared by squares.
\* ------------------------------------------------------------------------

MaxMaskNodes == 3

outlier_threshold == 15

large_domain == 500

edge_cap == 50

width_fraction == 30

dateline_span == 1800

dateline_near == 1700

significant_span_limit == 200

\* the nodes a regional mesh is made of: longitude, latitude, field value
MaskNodes ==
    { <<0, 0, 0>>, <<40, 0, 0>>, <<0, 30, 15>>, <<40, 30, -16>>,
      <<1750, 0, 0>>, <<-1750, 30, NaN>> }

\* the regions tried: 4 by 3 degrees; 50 by 3 degrees; 60 by 3 degrees;
\* 135 by 3 degrees; 4 by 60 degrees; the globe
MaskBoxes ==
    { [lon_min |-> 0, lon_max |-> 40, lat_min |-> 0, lat_max |-> 30],
      [lon_min |-> 0, lon_max |-> 500, lat_min |-> 0, lat_max |-> 30],
      [lon_min |-> 0, lon_max |-> 600, lat_min |-> 0, lat_max |-> 30],
      [lon_min |-> 0, lon_max |-> 1350, lat_min |-> 0, lat_max |-> 30],
      [lon_min |-> 0, lon_max |-> 40, lat_min |-> 0, lat_max |-> 600],
      [lon_min |-> -1800, lon_max |-> 1800, lat_min |-> -900, lat_max |-> 900] }

Abs(v) == IF v < 0 THEN -v ELSE v

\* mask_bad = np.isnan(data_reg) | (np.abs(data_reg) > outlier_threshold)
mask_bad(data) ==
    [i \in 1..Len(data) |->
        data[i] = NaN \/ Abs(data[i]) > outlier_threshold]

\* mask_bad[triang.triangles].any(axis=1) of one triangle
tri_bad(t, data) == \E v \in 1..3 : mask_bad(data)[t[v] + 1]

\* region_width > 50 or region_height > 50
is_large_domain(b) ==
    \/ b.lon_max - b.lon_min > large_domain
    \/ b.lat_max - b.lat_min > large_domain

\* the square of the edge between the vertices a and b of a triangle
tri_edge_sq(t, xs, ys, a, b) ==
    (xs[t[b] + 1] - xs[t[a] + 1]) * (xs[t[b] + 1] - xs[t[a] + 1])
        + (ys[t[b] + 1] - ys[t[a] + 1]) * (ys[t[b] + 1] - ys[t[a] + 1])

\* the longest of the first two edges only, squared
max_edge_sq_two(t, xs, ys) ==
    Max(<<tri_edge_sq(t, xs, ys, 1, 2), tri_edge_sq(t, xs, ys, 2, 3)>>)

\* max_edge = np.maximum(np.maximum(edge1, edge2), edge3), squared
max_edge_sq(t, xs, ys) ==
    Max(<<tri_edge_sq(t, xs, ys, 1, 2), tri_edge_sq(t, xs, ys, 2, 3),
          tri_edge_sq(t, xs, ys, 3, 1)>>)

\* edge_threshold = min(5.0, region_width / 30), times 30
edge_threshold_30(b) ==
    Min2(edge_cap * width_fraction, b.lon_max - b.lon_min)

\* edge > threshold for an edge given by its square and a threshold given
\* by 30 times its value.  The threshold is at most the cap, so an edge
\* longer than the cap exceeds it; this keeps the products small
exceeds(e_sq, threshold_30) ==
    \/ threshold_30 < 0
    \/ e_sq > edge_cap * edge_cap
    \/ /\ e_sq <= edge_cap * edge_cap
       /\ width_fraction * width_fraction * e_sq > threshold_30 * threshold_30

\* tri_too_large = max_edge > edge_threshold
tri_too_large(t, xs, ys, b) ==
    exceeds(max_edge_sq(t, xs, ys), edge_threshold_30(b))

\* lon_span = np.max(x_tri, axis=1) - np.min(x_tri, axis=1)
lon_span(t, xs) ==
    Max(<<xs[t[1] + 1], xs[t[2] + 1], xs[t[3] + 1]>>)
        - Min(<<xs[t[1] + 1], xs[t[2] + 1], xs[t[3] + 1]>>)

\* tri_crosses_dateline = lon_span > 180
tri_crosses_dateline(t, xs) == lon_span(t, xs) > dateline_span

\* tri_dateline_artifact = has_dateline_vertices & significant_span
tri_dateline_artifact(t, xs) ==
    /\ \/ Max(<<xs[t[1] + 1], xs[t[2] + 1], xs[t[3] + 1]>>) > dateline_near
       \/ Min(<<xs[t[1] + 1], xs[t[2] + 1], xs[t[3] + 1]>>) < -dateline_near
    /\ lon_span(t, xs) > significant_span_limit

\* the mask of the missing and outlier values alone
set_mask_bad_only(elems, xs, ys, data, b) ==
    [k \in 1..Len(elems) |-> tri_bad(elems[k], data)]

\* the mask given to triang.set_mask
set_mask(elems, xs, ys, data, b) ==
    [k \in 1..Len(elems) |->
        IF is_large_domain(b)
        THEN \/ tri_bad(elems[k], data)
             \/ tri_too_large(elems[k], xs, ys, b)
             \/ tri_crosses_dateline(elems[k], xs)
             \/ tri_dateline_artifact(elems[k], xs)
        ELSE tri_bad(elems[k], data)]

\* create_enhanced_plot from the regional mesh to triang.set_mask: the mask,
\* and for a large domain the three arrays whose sums it prints
enhanced_plot_mask ==
    /\ pc = "start"
    /\ tri_mask' =
           Some([mask |-> set_mask(elements, x, y, data_reg, box),
                 too_large |->
                     IF is_large_domain(box)
                     THEN [k \in 1..Len(elements) |->
                              tri_too_large(elements[k], x, y, box)]
                     ELSE << >>])
    /\ caller' = "create_enhanced_plot"
    /\ pc' = "done"
    /\ UNCHANGED <<data_reg, agentVars, reads>>
    /\ UNCHANGED <<meshVars, diffVars, stationVars>>
    /\ UNCHANGED <<nearestVars, frameVars, scriptVars>>

\* a regional mesh got from a region: every node lies in the region widened
\* by the buffer
InitMask ==
    /\ pc = "start"
    /\ caller = ""
    /\ box \in MaskBoxes
    /\ \E n \in 3..MaxMaskNodes :
          \E nodes \in [1..n -> MaskNodes] :
              /\ \A i \in 1..n :
                    /\ nodes[i][1] >= box.lon_min - buffer
                    /\ nodes[i][1] <= box.lon_max + buffer
                    /\ nodes[i][2] >= box.lat_min - buffer
                    /\ nodes[i][2] <= box.lat_max + buffer
              /\ x = [i \in 1..n |-> nodes[i][1]]
              /\ y = [i \in 1..n |-> nodes[i][2]]
              /\ data_reg = [i \in 1..n |-> nodes[i][3]]
              /\ \E m \in 1..MaxTris : elements \in [1..m -> Triangles(n)]
    /\ mesh = NoMesh
    /\ log = << >>
    /\ ret = None
    /\ NoDiff
    /\ NoStations
    /\ NoNearest
    /\ NoFrames
    /\ NoScripts
    /\ tri_mask = << >>
    /\ urlretrieves = << >>
    /\ sleeps = 0
    /\ reads = {}

NextMask ==
    \/ enhanced_plot_mask

SpecMask == InitMask /\ [][NextMask]_vars

\* ------------------------------------------------------------------------
\* Claims about the triangle mask
\* ------------------------------------------------------------------------

MaskMade == caller = "create_enhanced_plot" /\ tri_mask # None

\* some vertex of triangle k has a missing value or one beyond 1.5 m
HasBadValue(k) ==
    \E v \in 1..3 :
        LET d == data_reg[elements[k][v] + 1]
        IN  d = NaN \/ d > 15 \/ d < -15

\* the region is more than 50 degrees wide or high
LargeRegion ==
    box.lon_max - box.lon_min > 500 \/ box.lat_max - box.lat_min > 500

\* the squared length of the edge from vertex a to vertex b of triangle k
EdgeSq(k, a, b) ==
    LET i == elements[k][a] + 1
        j == elements[k][b] + 1
    IN  (x[i] - x[j]) * (x[i] - x[j]) + (y[i] - y[j]) * (y[i] - y[j])

\* an edge of the squared length e_sq is longer than the lesser of 5 degrees
\* and a thirtieth of the region's width
LongerThanThreshold(e_sq) ==
    LET w == box.lon_max - box.lon_min
    IN  IF e_sq > 50 * 50 THEN TRUE
        ELSE IF w >= 1500 THEN FALSE
        ELSE IF w < 0 THEN TRUE
        ELSE 900 * e_sq > w * w

OverLong(k) ==
    \/ LongerThanThreshold(EdgeSq(k, 1, 2))
    \/ LongerThanThreshold(EdgeSq(k, 2, 3))
    \/ LongerThanThreshold(EdgeSq(k, 3, 1))

\* the longitudes of the vertices of triangle k
Lons(k) == {x[elements[k][v] + 1] : v \in 1..3}

LonSpanAbove(k, limit) == \E a, b \in Lons(k) : a - b > limit

DatelineArtifact(k) ==
    /\ \E a \in Lons(k) : a > 1700 \/ a < -1700
    /\ LonSpanAbove(k, 200)

\* C23: for a region of more than 50 degrees extent the mask handed to the
\* renderer is the OR of the missing/outlier mask with the three
\* suppression conditions; for any other region it is the missing/outlier
\* mask.
C23_MaskIsOr ==
    MaskMade =>
        /\ Len(tri_mask[1].mask) = Len(elements)
        /\ \A k \in 1..Len(elements) :
              tri_mask[1].mask[k] =
                  IF LargeRegion
                  THEN \/ HasBadValue(k)
                       \/ OverLong(k)
                       \/ LonSpanAbove(k, 1800)
                       \/ DatelineArtifact(k)
                  ELSE HasBadValue(k)

\* a large region with a triangle masked although its values are good
C23_Witness ==
    /\ MaskMade
    /\ LargeRegion
    /\ \E k \in 1..Len(elements) :
          /\ tri_mask[1].mask[k]
          /\ ~ HasBadValue(k)

\* a large region with a triangle that is not masked
C23_WitnessKept ==
    /\ MaskMade
    /\ LargeRegion
    /\ \E k \in 1..Len(elements) :
          /\ ~ tri_mask[1].mask[k]
          /\ EdgeSq(k, 1, 2) > 0

\* a region that is not large, with a long triangle left unmasked
C23_WitnessSmall ==
    /\ MaskMade
    /\ ~ LargeRegion
    /\ box.lon_max - box.lon_min = 500
    /\ \E k \in 1..Len(elements) :
          /\ ~ tri_mask[1].mask[k]
          /\ EdgeSq(k, 1, 2) >= 40 * 40

\* C24: in a large domain a triangle is suppressed as over-long exactly
\* when at least one of its three edges is longer than the threshold, the
\* lesser of 5 degrees and a thirtieth of the domain width.
C24_OverLongEdge ==
    (MaskMade /\ LargeRegion) =>
        /\ Len(tri_mask[1].too_large) = Len(elements)
        /\ \A k \in 1..Len(elements) :
              /\ tri_mask[1].too_large[k] = OverLong(k)
              /\ tri_mask[1].too_large[k] => tri_mask[1].mask[k]

\* a triangle whose third edge alone is over-long, and one with an edge of
\* exactly the threshold of 5 degrees that is kept
C24_Witness ==
    /\ MaskMade
    /\ LargeRegion
    /\ \E k \in 1..Len(elements) :
          /\ tri_mask[1].too_large[k]
          /\ ~ LongerThanThreshold(EdgeSq(k, 1, 2))
          /\ ~ LongerThanThreshold(EdgeSq(k, 2, 3))

C24_WitnessAtThreshold ==
    /\ MaskMade
    /\ box.lon_max - box.lon_min = 3600
    /\ \E k \in 1..Len(elements) :
          /\ ~ tri_mask[1].too_large[k]
          /\ EdgeSq(k, 2, 3) = 50 * 50

\* ------------------------------------------------------------------------
\* Nowcast/forecast label of a frame: generate_single_frame,
\* generate_single_snapshot, generate_snapshot (by time index) and
\* plot_single_timestep (by time)
\* ------------------------------------------------------------------------

MaxIndex == 7

\* the time axes tried, in seconds: the time of the first record and the
\* step between records.  Record idx of a file is at first + idx * step
FirstRecords == {0, 3600}

RecordSteps == {1800, 3600}

seconds_per_hour == 3600

\* period_label of the scripts of 2D-Global-Points-CWL
period_label(t_idx) ==
    IF t_idx < nowcast_hours THEN "NOWCAST" ELSE "FORECAST"

\* stage of plot_zeta_us_pr.py: hours_from_start = t_sec / 3600.0
stage(t_sec) ==
    IF t_sec >= nowcast_hours * seconds_per_hour THEN "FORECAST"
    ELSE "NOWCAST"

\* a script labels the frame of record t_idx of a file with a time axis
Labels(name, by_index) ==
    \E t_idx \in 0..MaxIndex, first \in FirstRecords, step \in RecordSteps :
        LET t_sec == first + t_idx * step
        IN  ScriptRuns(name,
                       [t_idx |-> t_idx, t_sec |-> t_sec],
                       None, None, << >>, << >>,
                       Some(IF by_index THEN period_label(t_idx)
                            ELSE stage(t_sec)))

\* the label of generate_single_frame (animate_cwl_diff.py)
frame_period == Labels("generate_single_frame", TRUE)

\* the label of generate_single_snapshot (generate_snapshot_sequence.py)
snapshot_period == Labels("generate_single_snapshot", TRUE)

\* the label of generate_snapshot (plot_cwl_diff_snapshot.py)
single_snapshot_period == Labels("generate_snapshot", TRUE)

\* the label of plot_single_timestep (plot_zeta_us_pr.py)
zeta_stage == Labels("plot_single_timestep", FALSE)

NextLabel ==
    \/ frame_period
    \/ snapshot_period
    \/ single_snapshot_period
    \/ zeta_stage

SpecLabel == InitScripts /\ [][NextLabel]_vars

\* ------------------------------------------------------------------------
\* Claims about the nowcast/forecast label
\* ------------------------------------------------------------------------

Labellers == {"generate_single_frame", "generate_single_snapshot",
              "generate_snapshot", "plot_single_timestep"}

\* C25: one boundary of 6 hours for every script: a frame is labelled
\* NOWCAST exactly when its model time is before 6 hours, else FORECAST, so
\* that every script puts a given model hour on the same side.
C25_OneBoundary ==
    (caller \in Labellers /\ pc = "done") =>
        ret = Some(IF inputs.t_sec < 6 * 3600 THEN "NOWCAST" ELSE "FORECAST")

\* the scripts that label by time index put their boundary at index 6
BoundaryAtIndexSix ==
    (caller \in Labellers \ {"plot_single_timestep"} /\ pc = "done") =>
        ret = Some(IF inputs.t_idx < 6 THEN "NOWCAST" ELSE "FORECAST")

\* plot_zeta_us_pr.py puts its boundary at 6 hours
ZetaBoundaryAtSixHours ==
    (caller = "plot_single_timestep" /\ pc = "done") =>
        ret = Some(IF inputs.t_sec < 6 * 3600 THEN "NOWCAST" ELSE "FORECAST")

\* ------------------------------------------------------------------------
\* The agent (stofs_maxele_agent.py): download_file
\* ------------------------------------------------------------------------

MaxRetries == 3

\* how a download attempt can end: urlretrieve returns and the file has
\* size > 0; it returns and the file is empty or absent; it raises
\* HTTPError 404; it raises another HTTPError; it raises another exception;
\* it raises after it wrote a part of the file
DownloadOutcomes ==
    {"ok", "empty", "http_404", "http_other", "error", "error_partial"}

\* a test that takes an empty file too
file_downloaded_any(outcome) == outcome \in {"ok", "empty"}

\* os.path.exists(local_path) and os.path.getsize(local_path) > 0 after
\* urlretrieve returned
file_downloaded(outcome) == outcome = "ok"

\* a test that gives up on no error
gives_up_never(outcome) == FALSE

\* the HTTPError handler returns False: e.code == 404
gives_up(outcome) == outcome = "http_404"

\* `for attempt in range(retries)` from the 0-based attempt on: the attempts
\* made, the sleeps taken and the value returned
RECURSIVE download_loop(_, _, _)
download_loop(outcomes, attempt, retries) ==
    IF attempt >= retries
    THEN [made |-> << >>, sleeps |-> 0, result |-> FALSE]
    ELSE LET outcome == outcomes[attempt + 1]
         IN  IF file_downloaded(outcome)
             THEN [made |-> <<outcome>>, sleeps |-> 0, result |-> TRUE]
             ELSE IF gives_up(outcome)
             THEN [made |-> <<outcome>>, sleeps |-> 0, result |-> FALSE]
             ELSE LET rest == download_loop(outcomes, attempt + 1, retries)
                      slept == IF attempt < retries - 1 THEN 1 ELSE 0
                  IN  [made |-> <<outcome>> \o rest.made,
                       sleeps |-> slept + rest.sleeps,
                       result |-> rest.result]

\* download_file(url, local_path, retries)
download_file ==
    /\ pc = "start"
    /\ \E retries \in 0..MaxRetries :
          \E outcomes \in [1..retries -> DownloadOutcomes] :
              LET r == download_loop(outcomes, 0, retries)
              IN  /\ inputs' = [retries |-> retries, outcomes |-> outcomes]
                  /\ urlretrieves' = r.made
                  /\ sleeps' = r.sleeps
                  /\ ret' = Some(r.result)
    /\ caller' = "download_file"
    /\ pc' = "done"
    /\ UNCHANGED <<x, y, elements, box, mesh, log>>
    /\ UNCHANGED <<exit_status, time_labels, attempts, maskVars, reads>>
    /\ UNCHANGED <<diffVars, stationVars, nearestVars, frameVars>>

\* ------------------------------------------------------------------------
\* The agent (stofs_maxele_agent.py): main, download_all, plot_all
\* ------------------------------------------------------------------------

MaxPairs == 2

\* download_file(url, local_path, retries=3)
default_retries == 3

\* what a (date, cycle) file is before the run and how its download would
\* go: on disk with more than 100 MB; absent and downloaded at once; absent
\* and not on the server; absent and every attempt raises, the last after
\* it wrote a part of the file
FileStates == {"present", "fetched", "not_found", "broken"}

\* the attempts of download_file on a file in the given state
download_plan(state) ==
    IF state = "fetched" THEN <<"ok", "ok", "ok">>
    ELSE IF state = "not_found" THEN <<"http_404", "http_404", "http_404">>
    ELSE <<"error", "error", "error_partial">>

\* check_file_exists(local_path): on disk and larger than 100 MB
check_file_exists(state) == state = "present"

\* os.path.exists(local_path) in plot_all, after the download phase when
\* there was one
path_exists(state, downloaded) ==
    \/ state = "present"
    \/ downloaded /\ state \in {"fetched", "broken"}

\* a main that downloads whatever the options say
runs_download_always(plot_only) == TRUE

\* `if not args.plot_only:` download_all(...)
runs_download(plot_only) == ~ plot_only

\* `if not args.download_only:` plot_all(...)
runs_plots(download_only) == ~ download_only

\* download_all and download_maxele_files from the i-th file on, two files
\* per (date, cycle): the urlretrieve calls in order
RECURSIVE download_events(_, _)
download_events(fetch, i) ==
    IF i > 2 * Len(fetch) THEN << >>
    ELSE LET p == (i + 1) \div 2
             f == ((i - 1) % 2) + 1
             r == download_loop(download_plan(fetch[p][f]), 0,
                                default_retries)
         IN  (IF check_file_exists(fetch[p][f]) THEN << >>
              ELSE [k \in 1..Len(r.made) |->
                       [kind |-> "download", pair |-> p, item |-> f]])
                 \o download_events(fetch, i + 1)

\* the retry sleeps of the same calls
RECURSIVE download_sleeps(_, _)
download_sleeps(fetch, i) ==
    IF i > 2 * Len(fetch) THEN 0
    ELSE LET p == (i + 1) \div 2
             f == ((i - 1) % 2) + 1
             r == download_loop(download_plan(fetch[p][f]), 0,
                                default_retries)
         IN  (IF check_file_exists(fetch[p][f]) THEN 0 ELSE r.sleeps)
                 + download_sleeps(fetch, i + 1)

\* plot_all from the p-th (date, cycle) on: the subprocesses started, one
\* per region for every (date, cycle) whose two files exist
RECURSIVE plot_events(_, _, _)
plot_events(fetch, downloaded, p) ==
    IF p > Len(fetch) THEN << >>
    ELSE (IF /\ path_exists(fetch[p][1], downloaded)
             /\ path_exists(fetch[p][2], downloaded)
          THEN [k \in 1..MaxRegions |->
                   [kind |-> "plot", pair |-> p, item |-> k]]
          ELSE << >>)
             \o plot_events(fetch, downloaded, p + 1)

\* main() up to the call of download_all
agent_main ==
    /\ pc = "start"
    /\ \E list_regions \in BOOLEAN, download_only \in BOOLEAN,
          plot_only \in BOOLEAN, script_exists \in BOOLEAN,
          n \in 1..MaxPairs :
          \E fetch \in [1..n -> [1..2 -> FileStates]] :
              /\ inputs' = [list_regions |-> list_regions,
                            download_only |-> download_only,
                            plot_only |-> plot_only,
                            script_exists |-> script_exists,
                            fetch |-> fetch]
              /\ exit_status' =
                     IF ~ list_regions /\ ~ download_only /\ ~ script_exists
                     THEN Some(1) ELSE None
              /\ pc' = IF list_regions THEN "done"
                       ELSE IF ~ download_only /\ ~ script_exists THEN "done"
                       ELSE IF runs_download(plot_only) THEN "downloading"
                       ELSE IF runs_plots(download_only) THEN "plotting"
                       ELSE "done"
    /\ caller' = "agent_main"
    /\ log' = << >>
    /\ urlretrieves' = << >>
    /\ attempts' = << >>
    /\ UNCHANGED <<x, y, elements, box, mesh, ret>>
    /\ UNCHANGED <<time_labels, sleeps, maskVars, reads>>
    /\ UNCHANGED <<diffVars, stationVars, nearestVars, frameVars>>

\* download_all(dates, cycles, output_dir) called by main
download_all ==
    /\ pc = "downloading"
    /\ caller = "agent_main"
    /\ urlretrieves' = download_events(inputs.fetch, 1)
    /\ sleeps' = download_sleeps(inputs.fetch, 1)
    /\ log' = log \o download_events(inputs.fetch, 1)
    /\ pc' = IF runs_plots(inputs.download_only) THEN "plotting" ELSE "done"
    /\ UNCHANGED <<x, y, elements, box, mesh, ret, caller>>
    /\ UNCHANGED <<inputs, exit_status, time_labels, attempts>>
    /\ UNCHANGED <<maskVars, reads>>
    /\ UNCHANGED <<diffVars, stationVars, nearestVars, frameVars>>

\* plot_all(dates, cycles, output_dir, script_path) called by main
plot_all ==
    /\ pc = "plotting"
    /\ caller = "agent_main"
    /\ attempts' = plot_events(inputs.fetch, runs_download(inputs.plot_only), 1)
    /\ log' = log \o plot_events(inputs.fetch, runs_download(inputs.plot_only), 1)
    /\ pc' = "done"
    /\ UNCHANGED <<x, y, elements, box, mesh, ret, caller>>
    /\ UNCHANGED <<inputs, exit_status, time_labels>>
    /\ UNCHANGED <<tailVars>>
    /\ UNCHANGED <<diffVars, stationVars, nearestVars, frameVars>>

NextAgent ==
    \/ download_file
    \/ agent_main
    \/ download_all
    \/ plot_all

SpecAgent == InitScripts /\ [][NextAgent]_vars

\* download_file has returned
Downloaded == pc = "done" /\ caller = "download_file"

\* some attempt left a file of size > 0 at the local path
LeftAFile ==
    \E k \in 1..Len(urlretrieves) : urlretrieves[k] \in {"ok", "error_partial"}

\* C26: download_file makes at most `retries` attempts, the ones it makes are
\* the first ones in order, and it then returns; it returns True exactly when
\* the last attempt it made left a file of size > 0 behind a urlretrieve that
\* returned, so True only if some attempt left such a file, and False in
\* every other case.
C26_BoundedAttempts ==
    Downloaded =>
        /\ Len(urlretrieves) <= inputs.retries
        /\ urlretrieves = SubSeq(inputs.outcomes, 1, Len(urlretrieves))
        /\ ret \in {Some(TRUE), Some(FALSE)}
        /\ (ret = Some(TRUE)) <=>
               /\ urlretrieves # << >>
               /\ urlretrieves[Len(urlretrieves)] = "ok"
        /\ (ret = Some(TRUE)) => LeftAFile
        /\ (~ LeftAFile) => ret = Some(FALSE)

\* the third of three attempts succeeds after two that failed
C26_Witness ==
    /\ Downloaded
    /\ inputs.retries = 3
    /\ urlretrieves = <<"error", "empty", "ok">>
    /\ sleeps = 2
    /\ ret = Some(TRUE)

\* three attempts fail and nothing more is tried
C26_WitnessExhausted ==
    /\ Downloaded
    /\ inputs.retries = 3
    /\ urlretrieves = <<"http_other", "error_partial", "empty">>
    /\ sleeps = 2
    /\ ret = Some(FALSE)

\* C27: an attempt that fails with HTTP 404 is the last attempt made,
\* whatever the number of retries left; download_file returns False, and
\* every retry sleep taken came after an earlier attempt, none after the 404.
C27_NotFoundIsFinal ==
    Downloaded =>
        \A k \in 1..Len(urlretrieves) :
            urlretrieves[k] = "http_404" =>
                /\ k = Len(urlretrieves)
                /\ sleeps = k - 1
                /\ ret = Some(FALSE)

\* a 404 on the first of three attempts
C27_Witness ==
    /\ Downloaded
    /\ inputs.retries = 3
    /\ urlretrieves = <<"http_404">>
    /\ sleeps = 0
    /\ ret = Some(FALSE)

\* a 404 on the second of three attempts, after one retry sleep
C27_WitnessSecond ==
    /\ Downloaded
    /\ inputs.retries = 3
    /\ urlretrieves = <<"error", "http_404">>
    /\ sleeps = 1
    /\ ret = Some(FALSE)

\* C28: with both input files there, generate_regional_plots starts one
\* subprocess per configured region, in the order of the configuration, and
\* its result is True exactly when every subprocess exited with return code 0
\* and left its output file.
C28_EveryRegionOnce ==
    (/\ caller = "generate_regional_plots"
     /\ pc = "done"
     /\ inputs.files_exist) =>
        /\ [k \in 1..Len(attempts) |-> attempts[k].region]
               = [k \in 1..Len(inputs.outcomes) |-> k]
        /\ (ret = Some(TRUE)) <=>
               \A k \in 1..Len(inputs.outcomes) :
                   /\ inputs.outcomes[k] \in {"ok", "no_output"}
                   /\ inputs.outcomes[k] \in {"ok", "stale_output"}
        /\ ret \in {Some(TRUE), Some(FALSE)}

\* three regions plotted and True returned
C28_Witness ==
    /\ caller = "generate_regional_plots"
    /\ pc = "done"
    /\ inputs.files_exist
    /\ [k \in 1..Len(attempts) |-> attempts[k].outcome] = <<"ok", "ok", "ok">>
    /\ ret = Some(TRUE)

\* every subprocess exited with 0 and one left no file
C28_WitnessNoOutput ==
    /\ caller = "generate_regional_plots"
    /\ pc = "done"
    /\ inputs.files_exist
    /\ [k \in 1..Len(attempts) |-> attempts[k].outcome]
           = <<"ok", "no_output", "ok">>
    /\ log = <<"Saved", "Failed", "Saved">>
    /\ ret = Some(FALSE)

\* the files of the run that are not yet on disk with more than 100 MB
ToDownload ==
    {pf \in (1..Len(inputs.fetch)) \X (1..2) :
        inputs.fetch[pf[1]][pf[2]] # "present"}

\* the (pair, file) of the download attempts logged so far
Attempted ==
    {<<log[i].pair, log[i].item>> :
        i \in {j \in 1..Len(log) : log[j].kind = "download"}}

\* C29: in a run of the agent's main no download attempt comes after a plot
\* subprocess, and when a plot subprocess has been started the download of
\* every file of every requested date and cycle has been attempted; with
\* --plot-only there is no download attempt, with --download-only no plot
\* subprocess.
C29_DownloadBeforePlot ==
    caller = "agent_main" =>
        /\ \A i \in 1..Len(log) : \A j \in 1..Len(log) :
               (i < j /\ log[i].kind = "plot") => log[j].kind = "plot"
        /\ (attempts # << >> /\ ~ inputs.plot_only) => Attempted = ToDownload
        /\ inputs.plot_only => urlretrieves = << >>
        /\ inputs.download_only => attempts = << >>
        /\ log = urlretrieves \o attempts

\* a run that downloaded for two (date, cycle) pairs and then plotted
C29_Witness ==
    /\ caller = "agent_main"
    /\ pc = "done"
    /\ ~ inputs.plot_only
    /\ ~ inputs.download_only
    /\ Len(inputs.fetch) = 2
    /\ inputs.fetch[1] = <<"fetched", "broken">>
    /\ inputs.fetch[2] = <<"present", "fetched">>
    /\ Len(urlretrieves) = 5
    /\ Len(attempts) = 2 * MaxRegions
    /\ log[5].kind = "download"
    /\ log[6].kind = "plot"

\* a --plot-only run that plotted and downloaded nothing
C29_WitnessPlotOnly ==
    /\ caller = "agent_main"
    /\ pc = "done"
    /\ inputs.plot_only
    /\ ~ inputs.download_only
    /\ \E p \in 1..Len(inputs.fetch) : "fetched" \in Elems(inputs.fetch[p])
    /\ attempts # << >>
    /\ urlretrieves = << >>

\* a --download-only run that downloaded and plotted nothing
C29_WitnessDownloadOnly ==
    /\ caller = "agent_main"
    /\ pc = "done"
    /\ inputs.download_only
    /\ ~ inputs.plot_only
    /\ urlretrieves # << >>
    /\ attempts = << >>

\* ------------------------------------------------------------------------
\* The time indices the snapshot generators read
\* (plot_cwl_diff_snapshot.py, generate_snapshot_sequence.py,
\* plot_cwl_difference_timesteps.py)
\* ------------------------------------------------------------------------

MaxTimes == 3
MaxAsked == 2

\* the time steps a caller can ask for: below, inside and above the file
AskedSteps == (0 - 2)..(MaxTimes + 1)

\* the values of --skip and --time-step tried
AskedStrides == {0 - 1, 1, 2}

\* list(range(start, stop, step)) for step # 0
RECURSIVE py_range(_, _, _)
py_range(start, stop, step) ==
    IF (step > 0 /\ start >= stop) \/ (step < 0 /\ start <= stop)
    THEN << >>
    ELSE <<start>> \o py_range(start + step, stop, step)

\* variables['zeta'][t, :] on a file of n_times records raises IndexError
index_raises(t, n_times) == t >= n_times \/ t < 0 - n_times

\* `for t_idx in ...` from the k-th step on: the indices the loop reads the
\* data with, and whether a read raised; a guarded loop is the one with
\* `if t_idx >= n_times: continue`
RECURSIVE read_loop(_, _, _, _)
read_loop(steps, k, n_times, guarded) ==
    IF k > Len(steps) THEN [read |-> {}, raised |-> FALSE]
    ELSE IF guarded /\ steps[k] >= n_times
    THEN read_loop(steps, k + 1, n_times, guarded)
    ELSE IF index_raises(steps[k], n_times)
    THEN [read |-> {steps[k]}, raised |-> TRUE]
    ELSE LET rest == read_loop(steps, k + 1, n_times, guarded)
         IN  [read |-> {steps[k]} \cup rest.read, raised |-> rest.raised]

\* a generator that ends having read the given indices
Reads(name, found, r, result) ==
    /\ pc = "start"
    /\ inputs' = found
    /\ reads' = r.read
    /\ exit_status' = IF r.raised THEN Some(1) ELSE None
    /\ ret' = IF r.raised THEN None ELSE result
    /\ caller' = name
    /\ pc' = "done"
    /\ UNCHANGED <<x, y, elements, box, mesh, log>>
    /\ UNCHANGED <<time_labels, attempts, maskVars, agentVars>>
    /\ UNCHANGED <<diffVars, stationVars, nearestVars, frameVars>>

\* plot_cwl_diff_snapshot.py: generate_snapshot(..., timestep) on a region
\* that has triangles
snapshot_reads ==
    \E n_times \in 0..MaxTimes, timestep \in AskedSteps :
        LET found == [n_times |-> n_times, asked |-> <<timestep>>,
                      stride |-> 1]
        IN  IF timestep < 0 \/ timestep >= n_times
            THEN Reads("plot_cwl_diff_snapshot", found,
                       [read |-> {}, raised |-> FALSE], Some(FALSE))
            ELSE Reads("plot_cwl_diff_snapshot", found,
                       read_loop(<<timestep>>, 1, n_times, FALSE),
                       Some(TRUE))

\* generate_snapshot_sequence.py: generate_snapshot_sequence(...,
\* timesteps, skip) with --timesteps given
sequence_reads_asked ==
    \E n_times \in 0..MaxTimes, n \in 1..MaxAsked :
        \E timesteps \in [1..n -> AskedSteps] :
            Reads("generate_snapshot_sequence",
                  [n_times |-> n_times, asked |-> timesteps, stride |-> 1],
                  read_loop(timesteps, 1, n_times, TRUE), Some(TRUE))

\* the same with timesteps = None: list(range(0, n_times, skip))
sequence_reads_all ==
    \E n_times \in 0..MaxTimes, skip \in AskedStrides :
        Reads("generate_snapshot_sequence",
              [n_times |-> n_times, asked |-> << >>, stride |-> skip],
              read_loop(py_range(0, n_times, skip), 1, n_times, TRUE),
              Some(TRUE))

\* plot_cwl_difference_timesteps.py: main with --time-start, --time-end
\* and --time-step
timesteps_reads ==
    \E n_times \in 0..MaxTimes, time_start \in AskedSteps,
       end \in {None} \cup {Some(t) : t \in AskedSteps},
       time_step \in AskedStrides :
        LET time_end == Min2(IF end = None THEN n_times ELSE end[1], n_times)
        IN  Reads("plot_cwl_difference_timesteps",
                  [n_times |-> n_times, asked |-> <<time_start>>,
                   stride |-> time_step, time_end |-> end],
                  read_loop(py_range(time_start, time_end, time_step), 1,
                            n_times, FALSE),
                  None)

NextReads ==
    \/ snapshot_reads
    \/ sequence_reads_asked
    \/ sequence_reads_all
    \/ timesteps_reads

SpecReads == InitScripts /\ [][NextReads]_vars

\* a snapshot generator has run
Generators == {"plot_cwl_diff_snapshot", "generate_snapshot_sequence",
               "plot_cwl_difference_timesteps"}

\* C30: every time index a snapshot generator reads the input files with
\* lies in 0 <= t < n_times.
C30_ReadsInRange ==
    (caller \in Generators /\ pc = "done") =>
        \A t \in reads : 0 <= t /\ t < inputs.n_times

\* the same of plot_cwl_diff_snapshot.py alone, which tests both ends
SnapshotReadsInRange ==
    (caller = "plot_cwl_diff_snapshot" /\ pc = "done") =>
        \A t \in reads : 0 <= t /\ t < inputs.n_times

\* the two other generators read no index at or above n_times unless the
\* time step of plot_cwl_difference_timesteps.py is negative
ReadsBelowEnd ==
    (caller \in Generators /\ pc = "done" /\ inputs.stride > 0) =>
        \A t \in reads : t < inputs.n_times

====
